---- MODULE Spec2Model ----
(***************************************************************************)
(* Logic-grid puzzles of puztool: the category registry (CatMan), the      *)
(* relation grid (Grid) and its clue mutators, the constraint model        *)
(* (CatProblem / b_solver.Solver) and the solve / enumerate protocol       *)
(* (base.solve, base.all_solns, Solver.solve, Solver.all_solutions), and   *)
(* the older Numberjack Solver of logic_grid.py.                           *)
(*                                                                         *)
(* Conventions.  Python strings are TLA+ strings, so a qualified name is   *)
(* really built as cat \o ":" \o val.  Indices are 0-based as in the       *)
(* source.  A grid cell is one of None, True, False (strings); a value of  *)
(* a z3 Bool in a model is a TLA+ BOOLEAN.  An exception is a record       *)
(* [exc |-> <class name>, ...]; exc = "none" means a normal return.        *)
(***************************************************************************)
EXTENDS Integers, Sequences, FiniteSets, TLC

VARIABLES
    cls,         \* class of the object: "Grid", "CatProblem" (cat_prob.py),
                 \* "Solver" (b_solver.py) or "logic_grid.Solver"
    categories,  \* self.categories: category names in registration order
    catmap,      \* self.catmap: category name -> sequence of ValInfo
    lookup,      \* self.lookup: short or qualified name -> ValInfo | _Conflict
    xcats,       \* self.xcats: the extra categories, [name, kind, low, high, unique]
    lits,        \* the strings the caller passes as literals (input alphabet)
    clues,       \* the literal lists the caller passes as clues to a solvable
    bufs,        \* the numpy object arrays, one per pair of self.pairs
    grids,       \* self.grids[f1][f2]: a view (array, transposed?) of bufs
    rlimit,      \* z3 runs under a timeout: check() may give up with unknown
    old_bufs,    \* bufs as it was when the call reported in ret started
    constraints, \* CatProblem._constraints / Solver.constraints: the user's list
    gen,         \* the generator made by all_solutions(limit), and its z3.Solver
    model,       \* logic_grid.Solver.model: the Numberjack model once loaded
    ret,         \* the call the caller has just made and its outcome
    view         \* the CatSoln / Solution the caller holds: _rows and _grid

\* what construction fixes
cfgvars == <<cls, categories, catmap, lookup, xcats, lits, clues, grids, rlimit>>

vars == <<cfgvars, bufs, old_bufs, constraints, gen, model, ret, view>>

(***************************************************************************)
(* Bounds of the model.                                                    *)
(***************************************************************************)
\* longest literal list passed to exclude / require
MaxArgs == 3
\* longest option list passed to requireOne
MaxOpts == 2
\* most constraints a caller adds to a CatProblem
MaxCons == 2
\* largest limit passed to all_solutions
MaxLimit == 3

None == "None"
True == "True"
False == "False"

Range(s) == {s[k] : k \in DOMAIN s}

\* all sequences over S of length 0..n
SeqsUpTo(S, n) == UNION {[1..k -> S] : k \in 0..n}

(***************************************************************************)
(* Finite maps (Python dicts).                                             *)
(***************************************************************************)
EmptyMap == [x \in {} |-> None]

Put(m, k, v) == [x \in (DOMAIN m) \cup {k} |-> IF x = k THEN v ELSE m[x]]

(***************************************************************************)
(* ValInfo and _Conflict (b_grid.py).                                      *)
(***************************************************************************)
ValInfo(cat, val, idx) == [cat |-> cat, val |-> val, idx |-> idx]

fullname(info) == info.cat \o ":" \o info.val

\* A lookup entry: a ValInfo (conflict = FALSE, terms = <<info>>) or a
\* _Conflict with its list of terms.
Entry(info) == [conflict |-> FALSE, terms |-> <<info>>]

\* _Conflict(old, info): a _Conflict term is flattened, any other appended
Mut_Conflict(old, info) == [conflict |-> TRUE, terms |-> <<old.terms[1], info>>]

_Conflict(old, info) == [conflict |-> TRUE, terms |-> old.terms \o <<info>>]

(***************************************************************************)
(* CatMan.__init__: the loops over cats.items() and enumerate(domain).     *)
(***************************************************************************)
\* the body of the inner loop, for one value
AddValue(lk, info) ==
    LET l1 == Put(lk, fullname(info), Entry(info))
    IN IF info.val \notin DOMAIN l1
       THEN Put(l1, info.val, Entry(info))
       ELSE Put(l1, info.val, _Conflict(l1[info.val], info))

RECURSIVE AddDomain(_, _, _, _)
AddDomain(lk, cat, domain, k) ==
    IF k > Len(domain) THEN lk
    ELSE AddDomain(AddValue(lk, ValInfo(cat, domain[k], k - 1)), cat, domain, k + 1)

RECURSIVE BuildLookup(_, _, _)
BuildLookup(lk, cats, c) ==
    IF c > Len(cats) THEN lk
    ELSE BuildLookup(AddDomain(lk, cats[c].name, cats[c].domain, 1), cats, c + 1)

BuildCatmap(cats) ==
    [cat \in {cats[c].name : c \in DOMAIN cats} |->
        LET c == CHOOSE c \in DOMAIN cats : cats[c].name = cat
        IN [k \in DOMAIN cats[c].domain |-> ValInfo(cat, cats[c].domain[k], k - 1)]]

BuildCategories(cats) == [c \in DOMAIN cats |-> cats[c].name]

\* CatMan.num_items
num_items == Len(catmap[categories[1]])

\* CatMan.domain
domain(cat) == catmap[cat]

(***************************************************************************)
(* CatMan.get_info.  The literal is a string (a ValInfo passed in is       *)
(* returned as is and is not modelled as an input).                        *)
(***************************************************************************)
Ok(info) == [exc |-> "none", info |-> info]

KeyError(key) == [exc |-> "KeyError", key |-> key]

\* the message lists str(t) for every term, joined by ", "
AmbiguityError(value, terms) ==
    [exc |-> "AmbiguityError", value |-> value,
     terms |-> [k \in DOMAIN terms |-> fullname(terms[k])]]

\* get_info(value) with cat = None
get_info0(value) ==
    IF value \notin DOMAIN lookup THEN KeyError(value)
    ELSE LET v == lookup[value]
         IN IF v.conflict THEN AmbiguityError(value, v.terms)
            ELSE Ok(v.terms[1])

Mut_get_info(value, cat) ==
    IF value \notin DOMAIN lookup THEN KeyError(value)
    ELSE LET v == lookup[value]
         IN IF v.conflict
            THEN IF cat # None /\ (cat \o ":" \o value) \in DOMAIN lookup
                 THEN get_info0(cat \o ":" \o value)
                 ELSE AmbiguityError(value, v.terms)
            ELSE Ok(v.terms[1])

get_info(value, cat) ==
    IF value \notin DOMAIN lookup THEN KeyError(value)
    ELSE LET v == lookup[value]
         IN IF v.conflict
            THEN IF cat # None
                 THEN get_info0(cat \o ":" \o value)
                 ELSE AmbiguityError(value, v.terms)
            ELSE Ok(v.terms[1])

(***************************************************************************)
(* Grid.__init__: one array per pair of combos(categories, 2); the entry   *)
(* grids[f1][f2] is the array and grids[f2][f1] its transpose g.T, both    *)
(* views of the same buffer.                                               *)
(***************************************************************************)
\* itertools.combinations(range(1..n), 2) in its order: (1,2),(1,3),..,(2,3),..
RECURSIVE Combos2From(_, _, _)
Combos2From(a, b, n) ==
    IF a >= n THEN << >>
    ELSE IF b > n THEN Combos2From(a + 1, a + 2, n)
    ELSE <<(<<a, b>>)>> \o Combos2From(a, b + 1, n)

Combos2(n) == Combos2From(1, 2, n)

\* self.pairs
MkPairs(cs) == LET ix == Combos2(Len(cs))
               IN [k \in DOMAIN ix |-> <<cs[ix[k][1]], cs[ix[k][2]]>>]

pairs == MkPairs(categories)

\* np.empty((n, n), dtype='object'): every cell None
EmptyArray(n) == [i \in 0..(n - 1) |-> [j \in 0..(n - 1) |-> None]]

View(buf, transposed) == [buf |-> buf, T |-> transposed]

\* what self.grids[f2][f1] is bound to: g.T
Mut_TransposedView(k) == View(k, FALSE)

TransposedView(k) == View(k, TRUE)

MkGrids(cs) ==
    LET ps == MkPairs(cs)
    IN [f1 \in Range(cs) |->
         [f2 \in {f \in Range(cs) : \E k \in DOMAIN ps : ps[k] = <<f1, f>> \/ ps[k] = <<f, f1>>} |->
            IF \E k \in DOMAIN ps : ps[k] = <<f1, f2>>
            THEN View(CHOOSE k \in DOMAIN ps : ps[k] = <<f1, f2>>, FALSE)
            ELSE TransposedView(CHOOSE k \in DOMAIN ps : ps[k] = <<f2, f1>>)]]

\* g[i, j]
Read(b, g, i, j) == IF g.T THEN b[g.buf][j][i] ELSE b[g.buf][i][j]

\* g[i, j] = val
Write(b, g, i, j, val) ==
    IF g.T THEN [b EXCEPT ![g.buf][j][i] = val]
    ELSE [b EXCEPT ![g.buf][i][j] = val]

(***************************************************************************)
(* The caller.  ret.op = "idle": no call is being reported.  After a call  *)
(* ret holds its name, its arguments and its outcome until the caller      *)
(* takes the result (Return).                                              *)
(***************************************************************************)
Idle == [op |-> "idle"]

Call(op, first, args, out) == [op |-> op, first |-> first, args |-> args, out |-> out]

\* map(self.get_info, vals) or [self.get_info(v) for v in vals], run to the
\* end: itertools.combinations() reads its whole input before it yields the
\* first pair.
Resolve(vals) == [k \in DOMAIN vals |-> get_info(vals[k], None)]

Failed(rs) == {k \in DOMAIN rs : rs[k].exc # "none"}

\* the exception of the first literal that does not resolve
FirstFailure(rs) == rs[CHOOSE k \in Failed(rs) : \A m \in Failed(rs) : k <= m]

Infos(rs) == [k \in DOMAIN rs |-> rs[k].info]

(***************************************************************************)
(* Grid.exclude                                                            *)
(***************************************************************************)
RECURSIVE Mut_exclude_loop(_, _, _, _)
Mut_exclude_loop(b, infos, cs, k) ==
    IF k > Len(cs) THEN b
    ELSE LET i1 == infos[cs[k][1]]
             i2 == infos[cs[k][2]]
         IN IF i1.cat = i2.cat
            THEN b
            ELSE Mut_exclude_loop(Write(b, grids[i1.cat][i2.cat], i1.idx, i2.idx, False),
                                  infos, cs, k + 1)

\* for i1, i2 in combos(infos, 2): ...
RECURSIVE exclude_loop(_, _, _, _)
exclude_loop(b, infos, cs, k) ==
    IF k > Len(cs) THEN b
    ELSE LET i1 == infos[cs[k][1]]
             i2 == infos[cs[k][2]]
         IN IF i1.cat = i2.cat
            THEN exclude_loop(b, infos, cs, k + 1)
            ELSE exclude_loop(Write(b, grids[i1.cat][i2.cat], i1.idx, i2.idx, False),
                              infos, cs, k + 1)

\* the arrays after Grid.exclude(*vals), and its outcome
grid_exclude(b, vals) ==
    LET rs == Resolve(vals)
    IN IF Failed(rs) # {}
       THEN [b |-> b, out |-> FirstFailure(rs)]
       ELSE [b |-> exclude_loop(b, Infos(rs), Combos2(Len(vals)), 1),
             out |-> [exc |-> "none"]]

(***************************************************************************)
(* Grid.require                                                            *)
(***************************************************************************)
ValueError(msg) == [exc |-> "ValueError", msg |-> msg]

RECURSIVE Mut_require_loop(_, _, _, _)
Mut_require_loop(b, infos, cs, k) ==
    IF k > Len(cs) THEN [b |-> b, out |-> [exc |-> "none"]]
    ELSE LET i1 == infos[cs[k][1]]
             i2 == infos[cs[k][2]]
         IN IF i1.cat = i2.cat
            THEN Mut_require_loop(b, infos, cs, k + 1)
            ELSE Mut_require_loop(Write(b, grids[i1.cat][i2.cat], i1.idx, i2.idx, True),
                                  infos, cs, k + 1)

\* for i1, i2 in combos(infos, 2): ...
RECURSIVE require_loop(_, _, _, _)
require_loop(b, infos, cs, k) ==
    IF k > Len(cs) THEN [b |-> b, out |-> [exc |-> "none"]]
    ELSE LET i1 == infos[cs[k][1]]
             i2 == infos[cs[k][2]]
         IN IF i1.cat = i2.cat
            THEN [b |-> b,
                  out |-> ValueError("Cannot require both " \o fullname(i1)
                                     \o " and " \o fullname(i2))]
            ELSE require_loop(Write(b, grids[i1.cat][i2.cat], i1.idx, i2.idx, True),
                              infos, cs, k + 1)

\* require that resolves its literals as the walk needs them
Mut_grid_require(b, vals) ==
    LET rs == Resolve(vals)
    IN IF Failed(rs) = {}
       THEN require_loop(b, Infos(rs), Combos2(Len(vals)), 1)
       ELSE LET k == CHOOSE k \in Failed(rs) : \A m \in Failed(rs) : k <= m
                r == require_loop(b, Infos(SubSeq(rs, 1, k - 1)), Combos2(k - 1), 1)
            IN [b |-> r.b, out |-> IF r.out.exc # "none" THEN r.out ELSE rs[k]]

grid_require(b, vals) ==
    LET rs == Resolve(vals)
    IN IF Failed(rs) # {}
       THEN [b |-> b, out |-> FirstFailure(rs)]
       ELSE require_loop(b, Infos(rs), Combos2(Len(vals)), 1)

(***************************************************************************)
(* Grid.requireOne                                                         *)
(***************************************************************************)
\* old[i] or None
OrNone(v) == IF v = True THEN v ELSE None

\* g[i1.idx, :] = False
FillRow(b, g, i, val) ==
    IF g.T THEN [b EXCEPT ![g.buf] = [r \in DOMAIN @ |-> [@[r] EXCEPT ![i] = val]]]
    ELSE [b EXCEPT ![g.buf][i] = [c \in DOMAIN @ |-> val]]

\* for i2 in options: g[i1.idx, i2.idx] = old[i2.idx] or None
RECURSIVE requireOne_loop(_, _, _, _, _, _)
requireOne_loop(b, g, old, i1, options, k) ==
    IF k > Len(options) THEN b
    ELSE requireOne_loop(Write(b, g, i1.idx, options[k].idx, OrNone(Read(old, g, i1.idx, options[k].idx))),
                         g, old, i1, options, k + 1)

grid_requireOne(b, first, opts) ==
    LET r1 == get_info(first, None)
        rs == Resolve(opts)
    IN IF r1.exc # "none" THEN [b |-> b, out |-> r1]
       ELSE IF Failed(rs) # {} THEN [b |-> b, out |-> FirstFailure(rs)]
       ELSE LET i1 == r1.info
                options == Infos(rs)
                cats == {options[k].cat : k \in DOMAIN options}
            IN IF Cardinality(cats) > 1
               THEN [b |-> b, out |-> ValueError("requireOne options must be in a single category.")]
               ELSE IF cats = {}
               THEN [b |-> b, out |-> [exc |-> "IndexError"]]       \* list(categories)[0]
               ELSE LET cat == CHOOSE c \in cats : TRUE
                    IN IF cat \notin DOMAIN grids[i1.cat]
                       THEN [b |-> b, out |-> KeyError(cat)]       \* self.grids[i1.cat][cat]
                       ELSE LET g == grids[i1.cat][cat]
                            IN [b |-> requireOne_loop(FillRow(b, g, i1.idx, False), g, b,
                                                      i1, options, 1),
                                out |-> [exc |-> "none"]]

(***************************************************************************)
(* The z3 variables of a CatProblem / Solver.  A z3 constant is its name:  *)
(* two constants of one name and sort are one variable.                    *)
(***************************************************************************)
\* mat[i][j] of the pair (f1, f2): z3.Bool(f'{a.fullname}_{b.fullname}')
\* with b = d1[i] and a = d2[j]
GridVar(f1, f2, i, j) == fullname(domain(f2)[j + 1]) \o "_" \o fullname(domain(f1)[i + 1])

\* self.vgrids[f1][f2][i, j]: mat for a pair of self.pairs, mat.T for its reverse
vgrids(f1, f2, i, j) ==
    IF \E k \in DOMAIN pairs : pairs[k] = <<f1, f2>>
    THEN GridVar(f1, f2, i, j)
    ELSE GridVar(f2, f1, j, i)

\* self.vcats[name][cat][idx]: domain.mk(f'{a.fullname}_{name}')
vcats(name, cat, idx) == fullname(domain(cat)[idx + 1]) \o "_" \o name

\* concatenation of a sequence of sequences
RECURSIVE Flatten(_)
Flatten(ss) == IF ss = << >> THEN << >> ELSE Head(ss) \o Flatten(Tail(ss))

\* list(grid.flat): row-major
Flat(f1, f2) ==
    Flatten([i \in 1..num_items |-> [j \in 1..num_items |-> GridVar(f1, f2, i - 1, j - 1)]])

\* sum(self.vcats[name].values(), [])
XVarsOf(name) ==
    Flatten([c \in DOMAIN categories |->
                [k \in 1..num_items |-> vcats(name, categories[c], k - 1)]])

\* CatProblem.uniques / Solver.all_vars: xvars + gvars
uniques ==
    Flatten([x \in DOMAIN xcats |-> XVarsOf(xcats[x].name)])
    \o Flatten([k \in DOMAIN pairs |-> Flat(pairs[k][1], pairs[k][2])])

(***************************************************************************)
(* Constraints as data.  Every constraint is a record                      *)
(*   [op, vs (variables), k, k2 (integers), b (a truth value), m (a model)]*)
(* of which an op reads only its own fields.                               *)
(***************************************************************************)
Con(op, vs, k, k2, b, m) == [op |-> op, vs |-> vs, k |-> k, k2 |-> k2, b |-> b, m |-> m]

\* z3.PbEq([(g, 1) for g in vs], k): exactly k of vs
PbEq(vs, k) == Con("PbEq", vs, k, 0, FALSE, EmptyMap)

\* z3.AtMost(*vs, k) and z3.AtLeast(*vs, k)
AtMost(vs, k) == Con("AtMost", vs, k, 0, FALSE, EmptyMap)

AtLeast(vs, k) == Con("AtLeast", vs, k, 0, FALSE, EmptyMap)

\* z3.Implies(z3.And(a, b), c)
ImpliesAnd(a, b, c) == Con("ImpliesAnd", <<a, b, c>>, 0, 0, FALSE, EmptyMap)

\* v == b for a Python bool b
EqBool(v, b) == Con("EqBool", <<v>>, 0, 0, b, EmptyMap)

\* (g == False) | (x1 == x2)
NotOrEq(g, x1, x2) == Con("NotOrEq", <<g, x1, x2>>, 0, 0, FALSE, EmptyMap)

\* (var >= low) & (var <= high)
InRange(v, low, high) == Con("InRange", <<v>>, low, high, FALSE, EmptyMap)

\* a != b
Distinct2(a, b) == Con("Distinct2", <<a, b>>, 0, 0, FALSE, EmptyMap)

\* z3.And([~v for v in vs])
AndNot(vs) == Con("AndNot", vs, 0, 0, FALSE, EmptyMap)

\* z3.Or(*[v != model.eval(v) for v in vs])
OrDiffers(vs, m) == Con("OrDiffers", vs, 0, 0, FALSE, m)

(***************************************************************************)
(* cons_rowcol, cons_sanity, cons_grid, cons_domains.                      *)
(***************************************************************************)
Row(f1, f2, i) == [j \in 1..num_items |-> GridVar(f1, f2, i, j - 1)]

Col(f1, f2, j) == [i \in 1..num_items |-> GridVar(f1, f2, i - 1, j)]

\* CatProblem.cons_rowcol, for one grid and one i
Mut_rowcol_CatProblem(f1, f2, i) == <<PbEq(Row(f1, f2, i), 1)>>

rowcol_CatProblem(f1, f2, i) == <<PbEq(Row(f1, f2, i), 1), PbEq(Col(f1, f2, i), 1)>>

\* Solver.cons_rowcol, for one grid and one i
rowcol_Solver(f1, f2, i) ==
    <<AtMost(Row(f1, f2, i), 1), AtLeast(Row(f1, f2, i), 1),
      AtMost(Col(f1, f2, i), 1), AtLeast(Col(f1, f2, i), 1)>>

\* logic_grid.Solver.cons_rowcol, for one grid and one i:
\* nj.Gcc(vs, {1: (1, 1)}), the value 1 occurs exactly once in vs
rowcol_logic_grid(f1, f2, i) == <<PbEq(Row(f1, f2, i), 1), PbEq(Col(f1, f2, i), 1)>>

cons_rowcol ==
    Flatten([k \in DOMAIN pairs |->
        Flatten([i \in 1..num_items |->
            CASE cls = "CatProblem" -> rowcol_CatProblem(pairs[k][1], pairs[k][2], i - 1)
              [] cls = "Solver" -> rowcol_Solver(pairs[k][1], pairs[k][2], i - 1)
              [] OTHER -> rowcol_logic_grid(pairs[k][1], pairs[k][2], i - 1)])])

\* itertools.combinations(range(1..n), 3) in its order
Combos3(n) ==
    LET c2 == Combos2(n)
    IN Flatten([k \in DOMAIN c2 |->
                   [c \in 1..(n - c2[k][2]) |-> <<c2[k][1], c2[k][2], c2[k][2] + c>>]])

\* the three nested loops over i, j, k for one triple (f1, f2, f3)
Mut_sanity_triple(f1, f2, f3) ==
    Flatten([i \in 1..num_items |->
        Flatten([j \in 1..num_items |->
            [k \in 1..num_items |->
                ImpliesAnd(vgrids(f1, f2, i - 1, j - 1), vgrids(f2, f3, j - 1, k - 1),
                           vgrids(f1, f3, i - 1, j - 1))]])])

sanity_triple(f1, f2, f3) ==
    Flatten([i \in 1..num_items |->
        Flatten([j \in 1..num_items |->
            [k \in 1..num_items |->
                ImpliesAnd(vgrids(f1, f2, i - 1, j - 1), vgrids(f2, f3, j - 1, k - 1),
                           vgrids(f1, f3, i - 1, k - 1))]])])

\* the loops over i, j for one extra category and one pair (f1, f2)
Mut_sanity_xcat(name, f1, f2) ==
    Flatten([i \in 1..num_items |->
        [j \in 1..num_items |->
            NotOrEq(vgrids(f1, f2, i - 1, j - 1), vcats(name, f1, i - 1), vcats(name, f2, i - 1))]])

sanity_xcat(name, f1, f2) ==
    Flatten([i \in 1..num_items |->
        [j \in 1..num_items |->
            NotOrEq(vgrids(f1, f2, i - 1, j - 1), vcats(name, f1, i - 1), vcats(name, f2, j - 1))]])

cons_sanity ==
    LET c3 == Combos3(Len(categories))
    IN Flatten([t \in DOMAIN c3 |->
           sanity_triple(categories[c3[t][1]], categories[c3[t][2]], categories[c3[t][3]])])
       \o Flatten([x \in DOMAIN xcats |->
             Flatten([k \in DOMAIN pairs |->
                 sanity_xcat(xcats[x].name, pairs[k][1], pairs[k][2])])])

\* the cells of one pair in the order of the loops over i, j
CellSeq(b, f1, f2) ==
    Flatten([i \in 1..num_items |->
        [j \in 1..num_items |-> <<i - 1, j - 1, Read(b, grids[f1][f2], i - 1, j - 1)>>]])

\* if bgrid[i, j] is not None: yield vgrid[i, j] == bgrid[i, j]
grid_pin(f1, f2, c) ==
    IF c[3] # None THEN <<EqBool(vgrids(f1, f2, c[1], c[2]), c[3] = True)>> ELSE << >>

cons_grid(b) ==
    Flatten([k \in DOMAIN pairs |->
        LET cs == CellSeq(b, pairs[k][1], pairs[k][2])
        IN Flatten([c \in DOMAIN cs |-> grid_pin(pairs[k][1], pairs[k][2], cs[c])])])

\* IntDomain.cons / BoolDomain.cons on a list of variables
Mut_domain_cons(d, vlist) ==
    IF d.kind = "int" THEN [k \in DOMAIN vlist |-> InRange(vlist[k], d.low, d.high + 1)]
    ELSE << >>

domain_cons(d, vlist) ==
    IF d.kind = "int" THEN [k \in DOMAIN vlist |-> InRange(vlist[k], d.low, d.high)]
    ELSE << >>

\* for a, b in combos(vals, 2): yield a != b
unique_cons(vals) ==
    LET c2 == Combos2(Len(vals))
    IN [k \in DOMAIN c2 |-> Distinct2(vals[c2[k][1]], vals[c2[k][2]])]

\* CatProblem.cons_domains; Solver.cons_domains has no "unique";
\* logic_grid.Solver has no cons_domains, the domain is in the nj.VarArray
cons_domains ==
    IF cls = "logic_grid.Solver" THEN << >> ELSE
    Flatten([x \in DOMAIN xcats |->
        domain_cons(xcats[x], XVarsOf(xcats[x].name))
        \o (IF cls = "CatProblem" /\ xcats[x].unique
            THEN unique_cons([k \in 1..num_items |-> vcats(xcats[x].name, categories[1], k - 1)])
            ELSE << >>)])

\* CatProblem.constraints(), and what Solver.all_solutions adds to its
\* z3.Solver: the same five lists in the same order
problem_constraints(b, user) ==
    cons_sanity \o cons_rowcol \o cons_grid(b) \o cons_domains \o user

\* the arguments of nj.Model(*self.constraints) in logic_grid.Solver.solve:
\* the lists precomputed by __init__, what add() appended, and cons_grid()
lg_constraints(b, user) == cons_rowcol \o cons_sanity \o user \o cons_grid(b)

\* base.negate / Solver.cons_exclude
Mut_negate(m) == OrDiffers(Flatten([k \in DOMAIN pairs |-> Flat(pairs[k][1], pairs[k][2])]), m)

negate(m) == OrDiffers(uniques, m)

(***************************************************************************)
(* CatProblem.mk_exclude and CatProblem.exclude (positional literals).     *)
(***************************************************************************)
\* VarLookup.__getitem__ on two qualified names of grid categories
VarLookup(a, b) ==
    LET ia == get_info0(a).info
        ib == get_info0(b).info
    IN vgrids(ia.cat, ib.cat, ia.idx, ib.idx)

RECURSIVE mk_exclude_loop(_, _, _, _)
mk_exclude_loop(x, keys, cs, k) ==
    IF k > Len(cs) THEN x
    ELSE LET a == keys[cs[k][1]]
             b == keys[cs[k][2]]
         IN IF a.cat = b.cat
            THEN mk_exclude_loop(x, keys, cs, k + 1)
            ELSE mk_exclude_loop(Append(x, VarLookup(fullname(a), fullname(b))), keys, cs, k + 1)

\* the user list after CatProblem.exclude(*vals), and its outcome
prob_exclude(user, vals) ==
    LET rs == Resolve(vals)
    IN IF Failed(rs) # {}
       THEN [user |-> user, out |-> FirstFailure(rs)]
       ELSE [user |-> Append(user, AndNot(mk_exclude_loop(<< >>, Infos(rs), Combos2(Len(vals)), 1))),
             out |-> [exc |-> "none"]]

(***************************************************************************)
(* The external solver.  z3.Solver.check() decides the assertions and      *)
(* z3.Solver.model() returns one satisfying assignment, any one: a model   *)
(* is a function from the declared variables to values.  An Int ranges     *)
(* over the integers; the search below looks one step beyond the bounds    *)
(* any IntDomain mentions, which no InRange constraint admits.  A          *)
(* Numberjack variable of logic_grid.Solver ranges over its own domain.    *)
(***************************************************************************)
Universe(d) ==
    IF d.kind # "int" THEN BOOLEAN
    ELSE IF cls = "logic_grid.Solver" THEN d.low..d.high
    ELSE (d.low - 1)..(d.high + 1)

\* the declared variables, each with the values it ranges over
Decls ==
    Flatten([x \in DOMAIN xcats |->
        LET vs == XVarsOf(xcats[x].name)
        IN [k \in DOMAIN vs |-> [v |-> vs[k], u |-> Universe(xcats[x])]]])
    \o LET gs == Flatten([k \in DOMAIN pairs |-> Flat(pairs[k][1], pairs[k][2])])
       IN [k \in DOMAIN gs |-> [v |-> gs[k], u |-> BOOLEAN]]

Has(p, v) == v \in DOMAIN p

Trues(c, p) == Cardinality({i \in DOMAIN c.vs : Has(p, c.vs[i]) /\ p[c.vs[i]]})

Open(c, p) == Cardinality({i \in DOMAIN c.vs : ~Has(p, c.vs[i])})

AllHas(c, p) == \A i \in DOMAIN c.vs : Has(p, c.vs[i])

\* Can the partial assignment p still be completed to satisfy c?  On a
\* total assignment this is the truth value of c.
Possible(c, p) ==
    CASE c.op = "PbEq" -> Trues(c, p) <= c.k /\ c.k <= Trues(c, p) + Open(c, p)
      [] c.op = "AtMost" -> Trues(c, p) <= c.k
      [] c.op = "AtLeast" -> c.k <= Trues(c, p) + Open(c, p)
      [] c.op = "ImpliesAnd" ->
            ~(AllHas(c, p) /\ p[c.vs[1]] /\ p[c.vs[2]] /\ ~p[c.vs[3]])
      [] c.op = "EqBool" -> AllHas(c, p) => (p[c.vs[1]] = c.b)
      [] c.op = "NotOrEq" ->
            ~(AllHas(c, p) /\ p[c.vs[1]] /\ p[c.vs[2]] # p[c.vs[3]])
      [] c.op = "InRange" -> AllHas(c, p) => (c.k <= p[c.vs[1]] /\ p[c.vs[1]] <= c.k2)
      [] c.op = "Distinct2" -> AllHas(c, p) => (p[c.vs[1]] # p[c.vs[2]])
      [] c.op = "AndNot" -> \A i \in DOMAIN c.vs : Has(p, c.vs[i]) => ~p[c.vs[i]]
      [] c.op = "OrDiffers" ->
            \E i \in DOMAIN c.vs : ~Has(p, c.vs[i]) \/ p[c.vs[i]] # c.m[c.vs[i]]

\* the assignments of the first k declared variables that no assertion of
\* cs rules out, extended variable by variable
RECURSIVE Search(_, _, _, _)
Search(ps, ds, k, cs) ==
    IF k > Len(ds) THEN ps
    ELSE LET v == ds[k].v
             ext == {IF Has(p, v) THEN p ELSE (v :> x) @@ p : p \in ps, x \in ds[k].u}
         IN Search({q \in ext : \A i \in DOMAIN cs : Possible(cs[i], q)}, ds, k + 1, cs)

\* every model of the assertions cs
Models(cs) == Search({EmptyMap}, Decls, 1, cs)

(***************************************************************************)
(* base.all_solns (behind CatProblem.all_solutions) and                    *)
(* Solver.all_solutions, as generators: "new" until the first next(),      *)
(* "yielded" while suspended at the yield, "done" once exhausted.          *)
(*   limit: the argument; n: solutions yielded so far; sess: the           *)
(*   assertions of the z3.Solver of this generator; nb: how many of them   *)
(*   were added before the loop; out: the models yielded, in order;        *)
(*   warned: the warning has been printed; chk: what the last s.check()    *)
(*   of the generator returned ("none" before the first).                  *)
(***************************************************************************)
Gen(st, limit, n, sess, nb, out, warned, chk) ==
    [st |-> st, limit |-> limit, n |-> n, sess |-> sess, nb |-> nb,
     out |-> out, warned |-> warned, chk |-> chk]

\* no generator exists
NoGen == Gen("none", 0, 0, << >>, 0, << >>, FALSE, "none")

\* what s.check() can return on the assertions cs: z3.sat only if they have
\* a model, z3.unsat only if they have none, z3.unknown if z3 gives up
Check(cs) ==
    (IF Models(cs) # {} THEN {"sat"} ELSE {"unsat"})
        \cup (IF rlimit THEN {"unknown"} ELSE {})

\* the assertions when the generator g reaches the loop head on next():
\* s.add(*problem.constraints()) on the first next(), and on a later one
\* s.add(negate(problem, soln)) for the solution just yielded
Mut_SessAtHead(g, b, user) ==
    IF g.st = "new" THEN problem_constraints(b, user) ELSE g.sess

\* a solver that an earlier call has left a blocking clause in
Mut_SessShared(g, b, user) ==
    IF g.st = "new"
    THEN IF Models(problem_constraints(b, user)) = {} THEN problem_constraints(b, user)
         ELSE Append(problem_constraints(b, user),
                     negate(CHOOSE m \in Models(problem_constraints(b, user)) : TRUE))
    ELSE Append(g.sess, negate(g.out[Len(g.out)]))

SessAtHead(g, b, user) ==
    IF g.st = "new" THEN problem_constraints(b, user)
    ELSE Append(g.sess, negate(g.out[Len(g.out)]))

NbAtHead(g, b, user) ==
    IF g.st = "new" THEN Len(problem_constraints(b, user)) ELSE g.nb

\* base.all_solns at the loop head: for _ in range(limit), then
\* if s.check() != z3.sat: return.  "warn": the loop ran out and the
\* warning is printed; "stop": return; "yield": a model is yielded.
Mut_all_solns_head(n, limit, sat) ==
    IF n + 1 >= limit THEN "warn" ELSE IF ~sat THEN "stop" ELSE "yield"

all_solns_head(n, limit, sat) ==
    IF n >= limit THEN "warn" ELSE IF ~sat THEN "stop" ELSE "yield"

\* Solver.all_solutions at the loop head: while c < limit and s.check() ==
\* z3.sat, and after the loop if c == limit: print(...)
Mut_all_solutions_head(c, limit, sat) ==
    IF c <= limit /\ sat THEN "yield" ELSE IF c = limit THEN "warn" ELSE "stop"

all_solutions_head(c, limit, sat) ==
    IF c < limit /\ sat THEN "yield" ELSE IF c = limit THEN "warn" ELSE "stop"

LoopHead(n, limit, sat) ==
    IF cls = "CatProblem" THEN all_solns_head(n, limit, sat)
    ELSE all_solutions_head(n, limit, sat)

(***************************************************************************)
(* Actions of the caller on a Grid.  The caller of this model is done      *)
(* with a generator (it is closed) before it gives another clue or asks    *)
(* for another solve: Ready.                                               *)
(***************************************************************************)
Ready == ret.op = "idle" /\ gen.st \in {"none", "new"}

GetInfo(value, cat) ==
    /\ ret.op = "idle"
    /\ ret' = Call("get_info", cat, <<value>>, get_info(value, cat))
    /\ UNCHANGED <<cfgvars, view, bufs, old_bufs, constraints, gen, model>>

\* Grid.exclude(*vals), whenever the caller is free to call it
GridExcludeCall(vals) ==
    /\ ret.op = "idle"
    /\ cls # "CatProblem"
    /\ LET r == grid_exclude(bufs, vals)
       IN /\ bufs' = r.b
          /\ ret' = Call("exclude", None, vals, r.out)
    /\ old_bufs' = bufs
    /\ UNCHANGED <<cfgvars, view, constraints, gen, model>>

GridExclude(vals) == Ready /\ GridExcludeCall(vals)

\* Grid.require(*vals), whenever the caller is free to call it
RequireCall(vals) ==
    /\ ret.op = "idle"
    /\ LET r == grid_require(bufs, vals)
       IN /\ bufs' = r.b
          /\ ret' = Call("require", None, vals, r.out)
    /\ old_bufs' = bufs
    /\ UNCHANGED <<cfgvars, view, constraints, gen, model>>

Require(vals) == Ready /\ RequireCall(vals)

RequireOne(first, opts) ==
    /\ Ready
    /\ LET r == grid_requireOne(bufs, first, opts)
       IN /\ bufs' = r.b
          /\ ret' = Call("requireOne", first, opts, r.out)
    /\ old_bufs' = bufs
    /\ UNCHANGED <<cfgvars, view, constraints, gen, model>>

\* the caller takes the result (or handles the exception) and goes on
Return ==
    /\ ret.op # "idle"
    /\ ret' = Idle
    /\ old_bufs' = bufs
    /\ UNCHANGED <<cfgvars, view, bufs, constraints, gen, model>>

(***************************************************************************)
(* Actions of the caller on a solvable (CatProblem or Solver).             *)
(***************************************************************************)
\* CatProblem.exclude(*vals): a constraint is added, no cell is written
ProbExcludeCall(vals) ==
    /\ ret.op = "idle"
    /\ cls = "CatProblem"
    /\ Len(constraints) < MaxCons
    /\ LET r == prob_exclude(constraints, vals)
       IN /\ constraints' = r.user
          /\ ret' = Call("exclude", None, vals, r.out)
    /\ old_bufs' = bufs
    /\ UNCHANGED <<cfgvars, view, bufs, gen, model>>

ProbExclude(vals) == Ready /\ ProbExcludeCall(vals)

\* all_solutions(limit): a generator is made; its body has not started
AllSolutions(limit) ==
    /\ Ready
    /\ cls \in {"CatProblem", "Solver"}
    /\ gen' = Gen("new", limit, 0, << >>, 0, << >>, FALSE, "none")
    /\ UNCHANGED <<cfgvars, view, bufs, old_bufs, constraints, model, ret>>

\* next() on the generator
NextSoln ==
    /\ ret.op = "idle"
    /\ gen.st \in {"new", "yielded"}
    /\ LET sess == SessAtHead(gen, bufs, constraints)
           nb == NbAtHead(gen, bufs, constraints)
       IN \E chk \in IF gen.n < gen.limit THEN Check(sess) ELSE {gen.chk} :
            LET step == LoopHead(gen.n, gen.limit, chk = "sat")
            IN \/ /\ step = "yield"
                  /\ \E m \in Models(sess) :
                        gen' = Gen("yielded", gen.limit, gen.n + 1, sess, nb,
                                   Append(gen.out, m), FALSE, chk)
               \/ /\ step = "stop"
                  /\ gen' = Gen("done", gen.limit, gen.n, sess, nb, gen.out, FALSE, chk)
               \/ /\ step = "warn"
                  /\ gen' = Gen("done", gen.limit, gen.n, sess, nb, gen.out, TRUE, chk)
    /\ UNCHANGED <<cfgvars, view, bufs, old_bufs, constraints, model, ret>>

\* the caller drops the generator: generator.close(), or its last reference
Close ==
    /\ ret.op = "idle"
    /\ gen.st \in {"yielded", "done"}
    /\ gen' = NoGen
    /\ UNCHANGED <<cfgvars, view, bufs, old_bufs, constraints, model, ret>>

NoSolution == [exc |-> "NoSolution"]

MultipleSolutions(solns) == [exc |-> "MultipleSolutions", solns |-> solns]

Returns(soln) == [exc |-> "none", soln |-> soln]

\* base.solve(problem, unique) over all_solns(problem, 2), and Solver.solve
\* over self.all_solutions(): the loop body for the solution soln, with
\* first as it stands; "next" asks the generator for another solution
Mut_solve_body(unique, first, soln) ==
    IF ~unique THEN Returns(soln)
    ELSE IF first # << >> THEN MultipleSolutions(<<soln, soln>>)
    ELSE [exc |-> "next"]

solve_body(unique, first, soln) ==
    IF ~unique THEN Returns(soln)
    ELSE IF first # << >> THEN MultipleSolutions(<<first[1], soln>>)
    ELSE [exc |-> "next"]

\* after the loop
solve_end(first) == IF first = << >> THEN NoSolution ELSE Returns(first[1])

\* the limit solve() gives its generator
solve_limit == IF cls = "CatProblem" THEN 2 ELSE 10

\* a run of solve: its outcome and what its last s.check() returned
Run(out, chk) == [out |-> out, chk |-> chk]

\* solve(unique) on the grid b and the user list, after its first solution
\* m1 left the loop body asking for another: the second s.check()
solve_second(unique, s1, m1) ==
    LET s2 == Append(s1, negate(m1))
    IN UNION {
         IF LoopHead(1, solve_limit, c2 = "sat") # "yield"
         THEN {Run(solve_end(<<m1>>), c2)}
         ELSE {Run(solve_body(unique, <<m1>>, m2), c2) : m2 \in Models(s2)}
         : c2 \in Check(s2)}

\* every run solve(unique) can make on the grid b and the user list
solve_runs(unique, b, user) ==
    LET s1 == problem_constraints(b, user)
    IN UNION {
         IF LoopHead(0, solve_limit, c1 = "sat") # "yield"
         THEN {Run(solve_end(<< >>), c1)}
         ELSE UNION {
                IF solve_body(unique, << >>, m1).exc # "next"
                THEN {Run(solve_body(unique, << >>, m1), c1)}
                ELSE solve_second(unique, s1, m1)
                : m1 \in Models(s1)}
         : c1 \in Check(s1)}

\* every outcome solve(unique) can have on the grid b and the user list
solve_outcomes(unique, b, user) == {r.out : r \in solve_runs(unique, b, user)}

Solve(unique) ==
    /\ Ready
    /\ cls \in {"CatProblem", "Solver"}
    /\ \E r \in solve_runs(unique, bufs, constraints) :
          ret' = [op |-> "solve", first |-> unique, args |-> << >>,
                  out |-> r.out, chk |-> r.chk]
    /\ old_bufs' = bufs
    /\ UNCHANGED <<cfgvars, view, bufs, constraints, gen, model>>

AssertionError == [exc |-> "AssertionError"]

\* no Numberjack model is loaded
NoModel == [loaded |-> FALSE, cons |-> << >>, nuser |-> 0]

\* logic_grid.Solver.solve: the model is built and loaded on the first
\* call only; "assert self.solver.solve()", then _make_soln()
lg_outcome(sat, m) == IF sat THEN Returns(m) ELSE AssertionError

\* self.model after the "if self.model is None" block of solve; nuser is
\* how many constraints add() had appended when the list was extended
lg_load(md, b, user) ==
    IF md.loaded THEN md
    ELSE [loaded |-> TRUE, cons |-> lg_constraints(b, user), nuser |-> Len(user)]

\* the list that add() appends to: CatProblem.constraints_, and in
\* logic_grid.Solver self.constraints, which __init__ starts with the
\* precomputed lists and the first solve() extends with cons_grid()
self_constraints ==
    IF cls # "logic_grid.Solver" THEN constraints
    ELSE IF model.loaded
         THEN model.cons \o SubSeq(constraints, model.nuser + 1, Len(constraints))
         ELSE cons_rowcol \o cons_sanity \o constraints

\* every outcome of solve() on the loaded model md
lg_outcomes(md) ==
    LET ms == Models(md.cons)
    IN IF ms = {} THEN {lg_outcome(FALSE, EmptyMap)} ELSE {lg_outcome(TRUE, m) : m \in ms}

LgSolve ==
    /\ Ready
    /\ cls = "logic_grid.Solver"
    /\ model' = lg_load(model, bufs, constraints)
    /\ \E o \in lg_outcomes(lg_load(model, bufs, constraints)) :
          ret' = Call("solve", None, << >>, o)
    /\ old_bufs' = bufs
    /\ UNCHANGED <<cfgvars, view, bufs, constraints, gen>>

(***************************************************************************)
(* add_constraint on its pairs and the decorator add_it(func) it returns, of *)
(* CatProblem, Solver and logic_grid.Solver.  A pair is <<literal,         *)
(* category>>.  func is given by the set of the tuples of values on which  *)
(* it returns true.                                                        *)
(***************************************************************************)
\* itertools.product(*opts) in its order, the last position varying fastest
RECURSIVE product(_)
product(opts) ==
    IF opts = << >> THEN << << >> >>
    ELSE LET rest == product(Tail(opts))
         IN Flatten([c \in DOMAIN Head(opts) |->
                        [r \in DOMAIN rest |-> <<Head(opts)[c]>> \o rest[r]]])

\* func(*[c.val for c in choices])
apply(func, choices) == [k \in DOMAIN choices |-> choices[k].val] \in func

\* the choices that reach the body of "if not func(...)", in order
failing(opts, func) == SelectSeq(product(opts), LAMBDA ch : ~apply(func, ch))

\* vs = [self.vars[v, c] for (v, c) in zip(vnames, choices)]: VarLookup on
\* two ValInfo, self.vgrids[ia.cat][ib.cat][ia.idx, ib.idx]
vars_of(vnames, choices) ==
    [k \in DOMAIN vnames |->
        vgrids(vnames[k].cat, choices[k].cat, vnames[k].idx, choices[k].idx)]

\* add_it(func): z3.AtMost(*vs, len(vs) - 1), or nj.Sum(vs) < len(vs), is
\* added for every failing choice.  The grid of a category with itself
\* does not exist: vgrids[cat][cat] raises KeyError at the first failing
\* choice, before anything is added.
add_it(user, vnames, opts, func) ==
    LET bad == failing(opts, func)
        same == {k \in DOMAIN vnames : vnames[k].cat = opts[k][1].cat}
    IN IF bad = << >> THEN [user |-> user, out |-> [exc |-> "none"]]
       ELSE IF same # {}
       THEN [user |-> user,
             out |-> KeyError(vnames[CHOOSE k \in same : \A m \in same : k <= m].cat)]
       ELSE [user |-> user \o [n \in DOMAIN bad |->
                                  AtMost(vars_of(vnames, bad[n]), Len(vnames) - 1)],
             out |-> [exc |-> "none"]]

\* vnames = [self.get_info(p[0]) for p in pairs], then
\* opts = [self.domain(p[1]) for p in pairs], then the decorator is applied
add_constraint(user, ps, func) ==
    LET rs == Resolve([k \in DOMAIN ps |-> ps[k][1]])
        nocat == {k \in DOMAIN ps : ps[k][2] \notin DOMAIN catmap}
    IN IF Failed(rs) # {} THEN [user |-> user, out |-> FirstFailure(rs)]
       ELSE IF nocat # {}
       THEN [user |-> user,
             out |-> KeyError(ps[CHOOSE k \in nocat : \A m \in nocat : k <= m][2])]
       ELSE add_it(user, Infos(rs), [k \in DOMAIN ps |-> domain(ps[k][2])], func)

\* the tuples of values func can be called on
Tuples(ps) ==
    IF \E k \in DOMAIN ps : ps[k][2] \notin DOMAIN catmap THEN {}
    ELSE {[k \in DOMAIN ch |-> ch[k].val] :
            ch \in Range(product([k \in DOMAIN ps |-> domain(ps[k][2])]))}

AddConstraint(ps, func) ==
    /\ Ready
    /\ cls # "Grid"
    /\ LET r == add_constraint(constraints, ps, func)
       IN /\ Len(r.user) <= MaxCons
          /\ constraints' = r.user
          /\ ret' = Call("add_constraint", func, ps, r.out)
    /\ old_bufs' = bufs
    /\ UNCHANGED <<cfgvars, view, bufs, gen, model>>

(***************************************************************************)
(* CatSoln (cat_prob.py) and Solution (b_solver.py, logic_grid.py): rows   *)
(* and grid.  A value of a row is a literal or the value of an extra       *)
(* category; in the display grid a value is written as str() writes it     *)
(* (no literal of a puzzle is the decimal writing of a number).            *)
(***************************************************************************)
\* one item of the cats given to CatMan: a category name and its values
Cat(name, dom) == [name |-> name, domain |-> dom]

Digit(d) == <<"0", "1", "2", "3", "4", "5", "6", "7", "8", "9">>[d + 1]

\* '{}'.format(n) for an int n
RECURSIVE IntStr(_)
IntStr(n) ==
    IF n < 0 THEN "-" \o IntStr(-n)
    ELSE IF n < 10 THEN Digit(n)
    ELSE IntStr(n \div 10) \o Digit(n % 10)

\* the names of the extra categories, in the order of self.xcats
xcat_names == [x \in DOMAIN xcats |-> xcats[x].name]

\* the values i2.val of category c2 whose cell with i1 is set in the model m
set_in(m, c2, i1) ==
    SelectSeq(domain(c2), LAMBDA i2 : m[vgrids(categories[1], c2, i1.idx, i2.idx)])

\* one row: {c1: i1.val}, then for c2 in categories[1:] the first i2 that
\* is set (no entry if none is), then every extra category read from the
\* variable of i1
Mut_row_of(m, i1) ==
    [n \in {categories[1]}
          \cup {categories[c] : c \in {c \in 2..Len(categories) :
                                          set_in(m, categories[c], i1) # << >>}}
          \cup Range(xcat_names) |->
        IF n = categories[1] THEN i1.val
        ELSE IF n \in Range(categories) THEN set_in(m, n, i1)[1].val
        ELSE m[vcats(n, categories[2], i1.idx)]]

row_of(m, i1) ==
    [n \in {categories[1]}
          \cup {categories[c] : c \in {c \in 2..Len(categories) :
                                          set_in(m, categories[c], i1) # << >>}}
          \cup Range(xcat_names) |->
        IF n = categories[1] THEN i1.val
        ELSE IF n \in Range(categories) THEN set_in(m, n, i1)[1].val
        ELSE m[vcats(n, categories[1], i1.idx)]]

\* CatSoln.rows / Solution.rows / logic_grid.Solver._make_soln
soln_rows(m) == [k \in DOMAIN domain(categories[1]) |-> row_of(m, domain(categories[1])[k])]

\* list(altrows[0]): the keys of the first row in insertion order
row_cats(rows) ==
    SelectSeq(categories \o xcat_names, LAMBDA n : n \in DOMAIN rows[1])

\* a value of the column cat as the display grid writes it
shown(cat, v) == IF cat \in Range(categories) THEN v ELSE IntStr(v)

\* while row[cat] in vals: row[cat] = '_{}'.format(row[cat])
RECURSIVE mangle(_, _)
mangle(v, vals) == IF v \in vals THEN mangle("_" \o v, vals) ELSE v

\* "Deduplicate non-unique rows", for one column: the column after the loop
RECURSIVE Mut_dedupe(_, _, _)
Mut_dedupe(col, k, out) ==
    IF k > Len(col) THEN out
    ELSE Mut_dedupe(col, k + 1, Append(out, col[k]))

RECURSIVE dedupe(_, _, _)
dedupe(col, k, out) ==
    IF k > Len(col) THEN out
    ELSE dedupe(col, k + 1, Append(out, mangle(col[k], Range(out))))

\* altrows after the deduplication: altrows[r][cat]
altrows(rows) ==
    LET cats == row_cats(rows)
        cols == [n \in Range(cats) |->
                    dedupe([r \in DOMAIN rows |-> shown(n, rows[r][n])], 1, << >>)]
    IN [r \in DOMAIN rows |-> [n \in Range(cats) |-> cols[n][r]]]

\* the catmap given to Grid(): the values of self.catmap, then a list of
\* the values used for every other key of the rows
display_cats(alt) ==
    [c \in DOMAIN categories |->
        Cat(categories[c], [k \in DOMAIN domain(categories[c]) |-> domain(categories[c])[k].val])]
    \o [x \in DOMAIN xcat_names |->
          Cat(xcat_names[x], [r \in DOMAIN alt |-> alt[r][xcat_names[x]]])]

\* get_info(value, cat) on the lookup table lk of another registry
get_info_of(lk, value, cat) ==
    IF value \notin DOMAIN lk THEN KeyError(value)
    ELSE LET v == lk[value]
         IN IF v.conflict
            THEN IF (cat \o ":" \o value) \notin DOMAIN lk THEN KeyError(cat \o ":" \o value)
                 ELSE LET w == lk[cat \o ":" \o value]
                      IN IF w.conflict THEN AmbiguityError(cat \o ":" \o value, w.terms)
                         ELSE Ok(w.terms[1])
            ELSE Ok(v.terms[1])

\* Grid(catmap): the registry and its arrays, every cell None
NewGrid(cats) ==
    [categories |-> BuildCategories(cats),
     lookup |-> BuildLookup(EmptyMap, cats, 1),
     catmap |-> BuildCatmap(cats),
     grids |-> MkGrids(BuildCategories(cats)),
     num_items |-> Len(cats[1].domain),
     bufs |-> [k \in DOMAIN MkPairs(BuildCategories(cats)) |->
                  EmptyArray(Len(cats[1].domain))],
     exc |-> "none"]

\* self._grid.grids[f1][f2][:, :] = value
fill(b, g, n, value) == [b EXCEPT ![g.buf] = [i \in 0..(n - 1) |-> [j \in 0..(n - 1) |-> value]]]

RECURSIVE fill_loop(_, _, _)
fill_loop(d, cs, k) ==
    IF k > Len(cs) THEN d
    ELSE fill_loop([d EXCEPT !.bufs = fill(d.bufs, d.grids[cs[k][1]][cs[k][2]],
                                           d.num_items, False)],
                   cs, k + 1)

\* for row in altrows: for f1, f2 in combos(cats, 2): the cell of the two
\* resolved values is set True; a value that does not resolve raises
RECURSIVE mark_loop(_, _, _, _, _)
mark_loop(d, alt, cs, r, k) ==
    IF r > Len(alt) THEN d
    ELSE IF k > Len(cs) THEN mark_loop(d, alt, cs, r + 1, 1)
    ELSE LET f1 == cs[k][1]
             f2 == cs[k][2]
             ia == get_info_of(d.lookup, alt[r][f1], f1)
             ib == get_info_of(d.lookup, alt[r][f2], f2)
         IN IF ia.exc # "none" THEN [d EXCEPT !.exc = ia.exc]
            ELSE IF ib.exc # "none" THEN [d EXCEPT !.exc = ib.exc]
            ELSE mark_loop([d EXCEPT !.bufs = Write(d.bufs, d.grids[f1][f2],
                                                    ia.info.idx, ib.info.idx, True)],
                           alt, cs, r, k + 1)

\* CatSoln.grid / Solution.grid, computed from the rows
soln_grid(rows) ==
    LET alt == altrows(rows)
        cs == MkPairs(row_cats(rows))
    IN mark_loop(fill_loop(NewGrid(display_cats(alt)), cs, 1), alt, cs, 1, 1)

\* the caller holds no solution object
NoView == [held |-> FALSE, soln |-> EmptyMap, has_rows |-> FALSE, rows |-> << >>,
           has_grid |-> FALSE, grid |-> [exc |-> "unset"]]

\* the solution object of the Solution m the caller has been returned: the
\* one it holds if it is of m, else a new one (logic_grid.Solver.solve
\* makes the rows when it makes the object)
view_of(m) ==
    IF view.held /\ view.soln = m THEN view
    ELSE [held |-> TRUE, soln |-> m,
          has_rows |-> (cls = "logic_grid.Solver"),
          rows |-> IF cls = "logic_grid.Solver" THEN soln_rows(m) ELSE << >>,
          has_grid |-> FALSE, grid |-> [exc |-> "unset"]]

\* soln.rows: "if self._rows is None" it is computed, then kept
with_rows(v) ==
    IF v.has_rows THEN v ELSE [v EXCEPT !.has_rows = TRUE, !.rows = soln_rows(v.soln)]

\* soln.grid: "if self._grid is None" it is computed from self.rows, then kept
with_grid(v) ==
    IF v.has_grid THEN v
    ELSE [with_rows(v) EXCEPT !.has_grid = TRUE, !.grid = soln_grid(with_rows(v).rows)]

\* the caller reads .rows of the solution solve has returned
Rows ==
    /\ ret.op = "solve" /\ ret.out.exc = "none"
    /\ view' = with_rows(view_of(ret.out.soln))
    /\ UNCHANGED <<cfgvars, bufs, old_bufs, constraints, gen, model, ret>>

\* the caller reads .grid of the solution solve has returned
GridOf ==
    /\ ret.op = "solve" /\ ret.out.exc = "none"
    /\ view' = with_grid(view_of(ret.out.soln))
    /\ UNCHANGED <<cfgvars, bufs, old_bufs, constraints, gen, model, ret>>

(***************************************************************************)
(* Construction: CatMan.__init__ and Grid.__init__ on a puzzle p.          *)
(***************************************************************************)
Constructed(c, p) ==
    /\ cls = c
    /\ categories = BuildCategories(p.cats)
    /\ catmap = BuildCatmap(p.cats)
    /\ lookup = BuildLookup(EmptyMap, p.cats, 1)
    /\ xcats = p.xcats
    /\ lits = p.lits
    /\ clues = p.clues
    /\ bufs = [k \in DOMAIN MkPairs(BuildCategories(p.cats)) |->
                  EmptyArray(Len(p.cats[1].domain))]
    /\ grids = MkGrids(BuildCategories(p.cats))
    /\ old_bufs = [k \in DOMAIN MkPairs(BuildCategories(p.cats)) |->
                      EmptyArray(Len(p.cats[1].domain))]
    /\ constraints = << >>
    /\ gen = NoGen
    /\ model = NoModel
    /\ ret = Idle
    /\ view = NoView

\* no timeout is set on z3: check() runs to its answer
Construct(c, p) == Constructed(c, p) /\ rlimit = FALSE

(***************************************************************************)
(* SpecGrid: a Grid and its clue mutators.                                 *)
(***************************************************************************)
GridPuzzles ==
    { [cats |-> <<Cat("person", <<"Ann", "Ben">>), Cat("drink", <<"Tea", "Coffee">>)>>,
       xcats |-> << >>, clues |-> {}, lits |-> {"Ann", "Ben", "Tea", "Coffee"}],
      [cats |-> <<Cat("a", <<"x", "p">>), Cat("b", <<"x", "q">>)>>,
       xcats |-> << >>, clues |-> {}, lits |-> {"x", "q", "a:x", "b:x"}],
      [cats |-> <<Cat("size", <<"S">>), Cat("hue", <<"R">>), Cat("form", <<"Q">>)>>,
       xcats |-> << >>, clues |-> {}, lits |-> {"S", "R", "form:Q", "Zed"}] }

InitGrid == \E p \in GridPuzzles : Construct("Grid", p)

NextGrid ==
    \/ \E vals \in SeqsUpTo(lits, MaxArgs) : GridExclude(vals)
    \/ \E vals \in SeqsUpTo(lits, MaxArgs) : Require(vals)
    \/ \E first \in lits : \E opts \in SeqsUpTo(lits, MaxOpts) : RequireOne(first, opts)
    \/ Return

SpecGrid == InitGrid /\ [][NextGrid]_vars

(***************************************************************************)
(* Spec: a solvable, its clues and its solutions.                          *)
(***************************************************************************)
IntDomain(name, low, high, unique) ==
    [name |-> name, kind |-> "int", low |-> low, high |-> high, unique |-> unique]

Puzzles ==
    { [cats |-> <<Cat("person", <<"Ann", "Ben">>), Cat("drink", <<"Tea", "Coffee">>)>>,
       xcats |-> << >>, lits |-> {"Ann", "Tea", "Coffee"},
       clues |-> {<<"Ann", "Coffee">>, <<"Ann", "Tea">>}],
      [cats |-> <<Cat("pet", <<"cat", "dog">>), Cat("name", <<"Al", "Bo">>),
                  Cat("job", <<"vet", "cook">>)>>,
       xcats |-> << >>, lits |-> {"cat", "Bo"},
       clues |-> {<<"cat", "Bo">>}],
      [cats |-> <<Cat("person", <<"Ann", "Ben">>), Cat("drink", <<"Tea", "Coffee">>)>>,
       xcats |-> <<IntDomain("age", 1, 2, TRUE)>>, lits |-> {"Ann", "Tea"},
       clues |-> {<<"Ann", "Tea">>}] }

Init ==
    \E p \in Puzzles : \E c \in {"CatProblem", "Solver", "logic_grid.Solver"} :
        Construct(c, p)

Next ==
    \/ \E vals \in clues : GridExclude(vals)
    \/ \E vals \in clues : ProbExclude(vals)
    \/ \E vals \in clues : Require(vals)
    \/ \E limit \in 0..MaxLimit : AllSolutions(limit)
    \/ NextSoln
    \/ Close
    \/ \E unique \in BOOLEAN : Solve(unique)
    \/ LgSolve
    \/ Return

Spec == Init /\ [][Next]_vars

\* next() can be called: the enabling condition of NextSoln, which has an
\* outcome at every loop head and always changes gen
CanResume == ret.op = "idle" /\ gen.st \in {"new", "yielded"}

\* every call returns (each z3 check returns), and the caller iterates a
\* generator it has made (for soln in all_solutions(): next() is called again
\* and again): weak fairness of Return and strong fairness of NextSoln, the
\* latter with ENABLED <<NextSoln>>_vars written out as CanResume
SpecIterate ==
    /\ Spec
    /\ WF_vars(Return)
    /\ (<>[]~CanResume) \/ ([]<><<NextSoln>>_vars)

(***************************************************************************)
(* SpecMutate: a solvable whose caller goes on giving clues after a solve  *)
(* and while a generator is suspended.                                     *)
(***************************************************************************)
MutatePuzzles ==
    { [cats |-> <<Cat("person", <<"Ann", "Ben">>), Cat("drink", <<"Tea", "Coffee">>)>>,
       xcats |-> << >>, lits |-> {"Ann", "Coffee"},
       clues |-> {<<"Ann", "Coffee">>}] }

InitMutate ==
    \E p \in MutatePuzzles : \E c \in {"CatProblem", "Solver", "logic_grid.Solver"} :
        Construct(c, p)

NextMutate ==
    \/ \E vals \in clues : GridExcludeCall(vals)
    \/ \E vals \in clues : ProbExcludeCall(vals)
    \/ \E vals \in clues : RequireCall(vals)
    \/ \E limit \in 0..MaxLimit : AllSolutions(limit)
    \/ NextSoln
    \/ Close
    \/ \E unique \in BOOLEAN : Solve(unique)
    \/ LgSolve
    \/ Rows
    \/ GridOf
    \/ Return

SpecMutate == InitMutate /\ [][NextMutate]_vars

(***************************************************************************)
(* SpecView: a solvable, its solutions and what the caller reads of them.  *)
(***************************************************************************)
ViewPuzzles ==
    { [cats |-> <<Cat("person", <<"Ann", "Ben">>), Cat("drink", <<"Tea", "Coffee">>)>>,
       xcats |-> <<IntDomain("age", 1, 2, FALSE)>>, lits |-> {"Ann", "Tea"},
       clues |-> {<<"Ann", "Tea">>}],
      [cats |-> <<Cat("a", <<"x", "p">>), Cat("b", <<"x", "q">>)>>,
       xcats |-> << >>, lits |-> {"p", "q"},
       clues |-> {<<"p", "q">>}],
      [cats |-> <<Cat("pet", <<"cat", "dog">>), Cat("name", <<"Al", "Bo">>),
                  Cat("job", <<"vet", "cook">>)>>,
       xcats |-> << >>, lits |-> {"cat", "Bo"},
       clues |-> {<<"cat", "Bo">>}] }

InitView ==
    \E p \in ViewPuzzles : \E c \in {"CatProblem", "Solver", "logic_grid.Solver"} :
        Construct(c, p)

NextView ==
    \/ \E vals \in clues : GridExclude(vals)
    \/ \E vals \in clues : ProbExclude(vals)
    \/ \E vals \in clues : Require(vals)
    \/ \E unique \in BOOLEAN : Solve(unique)
    \/ LgSolve
    \/ Rows
    \/ GridOf
    \/ Return

SpecView == InitView /\ [][NextView]_vars

(***************************************************************************)
(* SpecAdd: a solvable, predicates added with add_constraint, and solve.   *)
(***************************************************************************)
AddPuzzles ==
    { [cats |-> <<Cat("person", <<"Ann", "Ben">>), Cat("drink", <<"Tea", "Coffee">>)>>,
       xcats |-> << >>, lits |-> {"Ann", "Tea", "person", "drink"}, clues |-> {}],
      [cats |-> <<Cat("pet", <<"cat", "dog">>), Cat("name", <<"Al", "Bo">>),
                  Cat("job", <<"vet", "cook">>)>>,
       xcats |-> << >>, lits |-> {"cat", "name", "job"}, clues |-> {}] }

InitAdd ==
    \E p \in AddPuzzles : \E c \in {"CatProblem", "Solver", "logic_grid.Solver"} :
        Construct(c, p)

\* position of the category cat in self.categories
CatIndex(cat) == CHOOSE c \in DOMAIN categories : categories[c] = cat

\* the argument lists: literals of the puzzle, each with a category it
\* names, the categories in their order
Links ==
    {ps \in SeqsUpTo((lits \ Range(categories)) \X (lits \cap Range(categories)),
                     Len(categories)) \ {<< >>} :
        \A a, b \in DOMAIN ps : a < b => CatIndex(ps[a][2]) < CatIndex(ps[b][2])}

NextAdd ==
    \/ \E ps \in Links : \E func \in SUBSET Tuples(ps) : AddConstraint(ps, func)
    \/ \E unique \in BOOLEAN : Solve(unique)
    \/ LgSolve
    \/ Return

SpecAdd == InitAdd /\ [][NextAdd]_vars

(***************************************************************************)
(* SpecReg: a registry and the resolution of literals.                     *)
(***************************************************************************)
RegPuzzles ==
    { [cats |-> <<Cat("a", <<"x", "p">>), Cat("b", <<"q", "x">>), Cat("c", <<"x", "r">>)>>,
       xcats |-> << >>, clues |-> {}, lits |-> {"x", "p", "q", "r", "a:x", "c:r", "zz"}],
      [cats |-> <<Cat("a", <<"x", "p">>), Cat("b", <<"y", "q">>), Cat("c", <<"r", "x">>)>>,
       xcats |-> << >>, clues |-> {}, lits |-> {"x", "y", "p", "r", "b:y", "c:x", "b:x"}],
      [cats |-> <<Cat("a", <<"x", "y">>), Cat("b", <<"y", "x">>)>>,
       xcats |-> << >>, clues |-> {}, lits |-> {"x", "y", "a:y", "b:y", "zz"}],
      [cats |-> <<Cat("person", <<"Ann", "Ben">>), Cat("drink", <<"Tea", "Coffee">>)>>,
       xcats |-> << >>, clues |-> {}, lits |-> {"Ann", "Ben", "Tea", "Coffee", "drink:Tea", "Zed"}] }

\* the hints a caller passes: no hint, a category, or a name that is none
Hints == Range(categories) \cup {None, "nocat"}

InitReg == \E p \in RegPuzzles : Construct("Grid", p)

NextReg ==
    \/ \E value \in lits : \E cat \in Hints : GetInfo(value, cat)
    \/ Return

SpecReg == InitReg /\ [][NextReg]_vars

(***************************************************************************)
(* SpecUnknown: a solvable on z3 run under a timeout, so that any          *)
(* s.check() of a solve or of a generator may return z3.unknown.           *)
(***************************************************************************)
InitUnknown ==
    \E p \in MutatePuzzles : \E c \in {"CatProblem", "Solver"} :
        Constructed(c, p) /\ rlimit = TRUE

NextUnknown ==
    \/ \E vals \in clues : GridExclude(vals)
    \/ \E vals \in clues : ProbExclude(vals)
    \/ \E vals \in clues : Require(vals)
    \/ \E limit \in 0..MaxLimit : AllSolutions(limit)
    \/ NextSoln
    \/ Close
    \/ \E unique \in BOOLEAN : Solve(unique)
    \/ Return

SpecUnknown == InitUnknown /\ [][NextUnknown]_vars

(***************************************************************************)
(* SpecDup: a Grid constructed from categories one of which lists a        *)
(* literal twice, and what a caller does with it.                          *)
(***************************************************************************)
DupPuzzles ==
    { [cats |-> <<Cat("person", <<"Ann", "Ann">>), Cat("drink", <<"Tea", "Coffee">>)>>,
       xcats |-> << >>, clues |-> {}, lits |-> {"Ann", "person:Ann", "Tea"}],
      [cats |-> <<Cat("person", <<"Ann", "Ben">>), Cat("drink", <<"Tea", "Tea">>)>>,
       xcats |-> << >>, clues |-> {}, lits |-> {"Ben", "Tea", "drink:Tea"}] }

InitDup == \E p \in DupPuzzles : Construct("Grid", p)

NextDup ==
    \/ \E value \in lits : \E cat \in Hints : GetInfo(value, cat)
    \/ \E vals \in SeqsUpTo(lits, MaxArgs) : GridExclude(vals)
    \/ \E vals \in SeqsUpTo(lits, MaxArgs) : Require(vals)
    \/ Return

SpecDup == InitDup /\ [][NextDup]_vars

(***************************************************************************)
(* Vocabulary of the claims.                                               *)
(***************************************************************************)
\* every (category, value) of the registry, read from catmap
AllValues == UNION {Range(catmap[c]) : c \in Range(categories)}

\* the registered values spelled x
Candidates(x) == {i \in AllValues : i.val = x}

\* the categories one of whose values is spelled x
CatsOf(x) == {i.cat : i \in Candidates(x)}

\* the cell read through the view from category f1 to category f2
Cell(b, f1, f2, i, j) == Read(b, grids[f1][f2], i, j)

Idx == 0..(num_items - 1)

CatPairs == {fp \in Range(categories) \X Range(categories) : fp[1] # fp[2]}

(***************************************************************************)
(* C1.  For every two distinct categories A, B and all i, j, in every      *)
(* state reached by exclude, require and requireOne calls (those ending in *)
(* an exception included), the cell read through the A-to-B view at (i, j) *)
(* equals the cell read through the B-to-A view at (j, i).                 *)
(***************************************************************************)
C1_Transpose ==
    \A fp \in CatPairs : \A i, j \in Idx :
        Cell(bufs, fp[1], fp[2], i, j) = Cell(bufs, fp[2], fp[1], j, i)

\* a require that raised after writing an off-diagonal cell
C1_Witness ==
    /\ ret.op = "require"
    /\ ret.out.exc = "ValueError"
    /\ \E fp \in CatPairs : \E i, j \in Idx :
          /\ i # j
          /\ Cell(bufs, fp[1], fp[2], i, j) = True
          /\ Cell(bufs, fp[1], fp[2], j, i) # True

(***************************************************************************)
(* C8.  If x is a value of k >= 2 categories, get_info(x) without a hint   *)
(* raises AmbiguityError naming the qualified name of each of the k        *)
(* candidates, and get_info(x, C) for a category C that contains x returns *)
(* C's ValInfo of x: category C, value x, x's index in C.                  *)
(***************************************************************************)
C8_Ambiguity ==
    (ret.op = "get_info" /\ Cardinality(CatsOf(ret.args[1])) >= 2) =>
        LET x == ret.args[1]
        IN /\ ret.first = None =>
                /\ ret.out.exc = "AmbiguityError"
                /\ Range(ret.out.terms) = {c \o ":" \o x : c \in CatsOf(x)}
                /\ Len(ret.out.terms) = Cardinality(CatsOf(x))
           /\ ret.first \in CatsOf(x) =>
                /\ ret.out.exc = "none"
                /\ ret.out.info \in Candidates(x)
                /\ ret.out.info.cat = ret.first
                /\ catmap[ret.first][ret.out.info.idx + 1].val = x

\* x is a value of three categories and was resolved without a hint
C8_Witness ==
    /\ ret.op = "get_info"
    /\ Cardinality(CatsOf(ret.args[1])) = 3
    /\ ret.first = None
    /\ ret.out.exc = "AmbiguityError"

\* x is a value of two or more categories and was resolved with the hint of
\* a later category, where its index is not 0
C8_WitnessHint ==
    /\ ret.op = "get_info"
    /\ Cardinality(CatsOf(ret.args[1])) >= 2
    /\ ret.first \in CatsOf(ret.args[1])
    /\ ret.out.exc = "none"
    /\ ret.out.info.idx = 1

(***************************************************************************)
(* C9.  If x is a value of two or more categories and get_info(x, hint) is *)
(* given a hint that is not a category containing x, then ...              *)
(***************************************************************************)
C9_Case ==
    /\ ret.op = "get_info"
    /\ Cardinality(CatsOf(ret.args[1])) >= 2
    /\ ret.first # None
    /\ ret.first \notin CatsOf(ret.args[1])

Given(args) == {get_info0(args[k]).info : k \in DOMAIN args}

C10_Exclude ==
    (ret.op = "exclude" /\ ret.out.exc = "none") =>
        \A fp \in CatPairs : \A i, j \in Idx :
            Cell(bufs, fp[1], fp[2], i, j) =
                IF /\ ValInfo(fp[1], catmap[fp[1]][i + 1].val, i) \in Given(ret.args)
                   /\ ValInfo(fp[2], catmap[fp[2]][j + 1].val, j) \in Given(ret.args)
                THEN False
                ELSE Cell(old_bufs, fp[1], fp[2], i, j)

\* a successful exclude given two values of one category before a value of
\* another, on a grid that held a True cell: two cells are set, one is kept
C10_Witness ==
    /\ ret.op = "exclude"
    /\ ret.out.exc = "none"
    /\ Len(ret.args) = 3
    /\ \A k \in DOMAIN ret.args : get_info0(ret.args[k]).exc = "none"
    /\ get_info0(ret.args[1]).info.cat = get_info0(ret.args[2]).info.cat
    /\ get_info0(ret.args[1]).info # get_info0(ret.args[2]).info
    /\ get_info0(ret.args[3]).info.cat # get_info0(ret.args[1]).info.cat
    /\ \E fp \in CatPairs : \E i, j \in Idx :
          /\ Cell(old_bufs, fp[1], fp[2], i, j) = True
          /\ Cell(bufs, fp[1], fp[2], i, j) = True

(***************************************************************************)
(* Vocabulary of the solver claims.                                        *)
(***************************************************************************)
\* the Solution solve has just returned, and the Solutions yielded so far
Returned == IF ret.op = "solve" /\ ret.out.exc = "none" THEN {ret.out.soln} ELSE {}

Yielded == Range(gen.out)

\* value i of category f1 goes with value j of category f2 in the Solution m
Paired(m, f1, i, f2, j) == m[vgrids(f1, f2, i, j)]

\* the constraint set of the object as it stands
ConstraintSet ==
    IF cls = "logic_grid.Solver" THEN lg_constraints(bufs, constraints)
    ELSE problem_constraints(bufs, constraints)

\* the assignments that satisfy it
Sat == Models(ConstraintSet)

\* the assignments that satisfy what the generator took from the object
SnapSat == Models(SubSeq(gen.sess, 1, gen.nb))

\* solve(unique = True) of base.py / b_solver.py has just been called
SolvedUnique == ret.op = "solve" /\ cls \in {"CatProblem", "Solver"} /\ ret.first = TRUE

(***************************************************************************)
(* C2.  In every Solution returned by solve or yielded by all_solutions,   *)
(* for every two distinct categories, each row and each column of the      *)
(* relation matrix holds exactly one True: the pairing is a bijection.     *)
(***************************************************************************)
C2_Bijection ==
    \A m \in Returned \cup Yielded : \A fp \in CatPairs : \A i \in Idx :
        /\ Cardinality({j \in Idx : Paired(m, fp[1], i, fp[2], j)}) = 1
        /\ Cardinality({j \in Idx : Paired(m, fp[1], j, fp[2], i)}) = 1

\* two Solutions of a three-category puzzle have been yielded
C2_Witness == Len(categories) = 3 /\ Len(gen.out) = 2

(***************************************************************************)
(* C3.  In every Solution returned or yielded, for every ordered triple    *)
(* of pairwise distinct categories (A, B, C), whatever their registration  *)
(* order, and all i, j, k: if A_i goes with B_j and B_j goes with C_k then *)
(* A_i goes with C_k.                                                      *)
(***************************************************************************)
C3_Transitive ==
    \A m \in Returned \cup Yielded :
        \A A, B, C \in Range(categories) :
            (A # B /\ B # C /\ A # C) =>
                \A i, j, k \in Idx :
                    (Paired(m, A, i, B, j) /\ Paired(m, B, j, C, k)) => Paired(m, A, i, C, k)

\* solve has returned a Solution of a three-category puzzle
C3_Witness == Len(categories) = 3 /\ Returned # {}

(***************************************************************************)
(* C4.  When exactly one assignment satisfies the constraints,             *)
(* solve(unique = True) returns that assignment and raises nothing, and    *)
(* all_solutions(limit) with limit >= 2 yields that one Solution and then  *)
(* ends, without the warning.  With person [Ann, Ben], drink [Tea, Coffee] *)
(* and the one clue exclude(Ann, Coffee), solve returns Ann with Tea and   *)
(* Ben with Coffee.                                                        *)
(***************************************************************************)
\* the object after exclude("Ann", "Coffee") as its only clue
AnnNotCoffee ==
    /\ categories = <<"person", "drink">>
    /\ xcats = << >>
    /\ \A i, j \in Idx :
          Cell(bufs, "person", "drink", i, j) =
              IF cls # "CatProblem" /\ i = 0 /\ j = 1 THEN False ELSE None
    /\ constraints =
          IF cls = "CatProblem" THEN prob_exclude(<< >>, <<"Ann", "Coffee">>).user ELSE << >>

C4_Unique ==
    /\ (SolvedUnique /\ Cardinality(Sat) = 1) =>
          (ret.out.exc = "none" /\ ret.out.soln \in Sat)
    /\ (gen.st = "done" /\ gen.limit >= 2 /\ Cardinality(SnapSat) = 1) =>
          (Len(gen.out) = 1 /\ gen.out[1] \in SnapSat /\ ~gen.warned)
    /\ (SolvedUnique /\ AnnNotCoffee) =>
          /\ ret.out.exc = "none"
          /\ Paired(ret.out.soln, "person", 0, "drink", 0)
          /\ Paired(ret.out.soln, "person", 1, "drink", 1)

\* after exclude(Ann, Coffee) alone, all_solutions(limit >= 2) has yielded the
\* only Solution and has ended
C4_Witness ==
    /\ AnnNotCoffee
    /\ gen.st = "done" /\ gen.limit >= 2 /\ Cardinality(SnapSat) = 1 /\ Len(gen.out) = 1

(***************************************************************************)
(* C5.  When at least two assignments satisfy the constraints,             *)
(* solve(unique = True) raises MultipleSolutions carrying exactly two      *)
(* Solutions: a first model and a second one that differs from it on at    *)
(* least one variable of uniques().                                        *)
(***************************************************************************)
C5_Multiple ==
    (SolvedUnique /\ Cardinality(Sat) >= 2) =>
        /\ ret.out.exc = "MultipleSolutions"
        /\ Len(ret.out.solns) = 2
        /\ ret.out.solns[1] \in Sat
        /\ ret.out.solns[2] \in Sat
        /\ \E k \in DOMAIN uniques :
              ret.out.solns[1][uniques[k]] # ret.out.solns[2][uniques[k]]

\* MultipleSolutions has been raised on a puzzle with an extra category
C5_Witness == SolvedUnique /\ ret.out.exc = "MultipleSolutions" /\ xcats # << >>

(***************************************************************************)
(* C6.  solve raises NoSolution, whatever the value of unique, exactly     *)
(* when no assignment satisfies the constraint set of the object; and      *)
(* all_solutions on an unsatisfiable constraint set yields nothing and     *)
(* ends without an error.                                                  *)
(***************************************************************************)
C6_NoSolution ==
    /\ ret.op = "solve" => (ret.out.exc = "NoSolution" <=> Sat = {})
    /\ (gen.st \in {"yielded", "done"} /\ SnapSat = {}) =>
          (gen.st = "done" /\ gen.out = << >>)

\* the same on the two classes built on z3 (cat_prob.py, b_solver.py)
C6_NoSolutionZ3 == cls \in {"CatProblem", "Solver"} => C6_NoSolution

(***************************************************************************)
(* C7.  Once a cell has been required and then excluded (require(Ann,      *)
(* Tea), then exclude(Ann, Tea)), solve raises NoSolution: the exclude     *)
(* does not silently replace the required fact.                            *)
(***************************************************************************)
\* every outcome the next solve can have
NextSolve ==
    IF cls = "logic_grid.Solver" THEN lg_outcomes(lg_load(model, bufs, constraints))
    ELSE solve_outcomes(TRUE, bufs, constraints) \cup solve_outcomes(FALSE, bufs, constraints)

\* exclude(a, b) has just returned, and its cell had been required
ExcludedRequired ==
    /\ ret.op = "exclude" /\ ret.out.exc = "none" /\ Len(ret.args) = 2
    /\ LET a == get_info0(ret.args[1]).info
           b == get_info0(ret.args[2]).info
       IN a.cat # b.cat /\ Cell(old_bufs, a.cat, b.cat, a.idx, b.idx) = True

C7_Contradiction == ExcludedRequired => \A o \in NextSolve : o.exc = "NoSolution"

\* the same on CatProblem, whose exclude adds a constraint
C7_ContradictionCatProblem == cls = "CatProblem" => C7_Contradiction

(***************************************************************************)
(* C11.  require(l1..ln), every literal resolving: if the literals lie in  *)
(* pairwise different categories it sets to True exactly the cells of      *)
(* every pair of them and changes no other cell; if two of them share a    *)
(* category (the same literal given twice included) it raises ValueError.  *)
(***************************************************************************)
\* every given literal resolves
AllResolve(args) == \A k \in DOMAIN args : get_info0(args[k]).exc = "none"

\* two of the given literals (two positions) share a category
ShareCategory(args) ==
    \E k1, k2 \in DOMAIN args :
        k1 # k2 /\ get_info0(args[k1]).info.cat = get_info0(args[k2]).info.cat

C11_Require ==
    (ret.op = "require" /\ AllResolve(ret.args)) =>
        IF ShareCategory(ret.args)
        THEN ret.out.exc = "ValueError"
        ELSE /\ ret.out.exc = "none"
             /\ \A fp \in CatPairs : \A i, j \in Idx :
                   Cell(bufs, fp[1], fp[2], i, j) =
                       IF /\ ValInfo(fp[1], catmap[fp[1]][i + 1].val, i) \in Given(ret.args)
                          /\ ValInfo(fp[2], catmap[fp[2]][j + 1].val, j) \in Given(ret.args)
                       THEN True
                       ELSE Cell(old_bufs, fp[1], fp[2], i, j)

\* a require of three values of three categories has set a cell that was
\* False
C11_Witness ==
    /\ ret.op = "require"
    /\ ret.out.exc = "none"
    /\ Len(ret.args) = 3
    /\ \E fp \in CatPairs : \E i, j \in Idx :
          /\ Cell(old_bufs, fp[1], fp[2], i, j) = False
          /\ Cell(bufs, fp[1], fp[2], i, j) = True

\* the same literal given twice has raised ValueError
C11_WitnessTwice ==
    /\ ret.op = "require"
    /\ Len(ret.args) = 2
    /\ ret.args[1] = ret.args[2]
    /\ ret.out.exc = "ValueError"

(***************************************************************************)
(* C12.  After a successful requireOne(first, options), in the row of      *)
(* first in the array between its category and the category of the         *)
(* options, every cell that is not an option is False and every option     *)
(* cell holds the value it held before the call: True stays True, False    *)
(* stays False, None stays None.                                           *)
(***************************************************************************)
\* the resolved anchor and options of the requireOne call reported in ret
Anchor == get_info0(ret.first).info

Options == Given(ret.args)

OptionsCat == (CHOOSE o \in Options : TRUE).cat

C12_RequireOne ==
    (ret.op = "requireOne" /\ ret.out.exc = "none") =>
        \A j \in Idx :
            Cell(bufs, Anchor.cat, OptionsCat, Anchor.idx, j) =
                IF \E o \in Options : o.idx = j
                THEN Cell(old_bufs, Anchor.cat, OptionsCat, Anchor.idx, j)
                ELSE False

\* what the code does to an option cell: old[i2.idx] or None
C12_RequireOneOrNone ==
    (ret.op = "requireOne" /\ ret.out.exc = "none") =>
        \A j \in Idx :
            Cell(bufs, Anchor.cat, OptionsCat, Anchor.idx, j) =
                IF \E o \in Options : o.idx = j
                THEN OrNone(Cell(old_bufs, Anchor.cat, OptionsCat, Anchor.idx, j))
                ELSE False

(***************************************************************************)
(* C13.  requireOne(first, options), every literal resolving, raises       *)
(* ValueError and changes no cell whenever the options are not all in one  *)
(* category other than that of first: options of more than one category,   *)
(* options in the category of first, or no option at all.                  *)
(***************************************************************************)
OptionCats == {o.cat : o \in Options}

\* the call reported in ret is a requireOne the claim wants rejected
BadOptions ==
    /\ ret.op = "requireOne"
    /\ get_info0(ret.first).exc = "none"
    /\ AllResolve(ret.args)
    /\ \/ Cardinality(OptionCats) # 1
       \/ OptionCats = {Anchor.cat}

C13_Rejects == BadOptions => (ret.out.exc = "ValueError" /\ bufs = old_bufs)

\* what the code does: ValueError for more than one category, IndexError
\* for no option, KeyError for the category of first; no cell is changed
C13_RejectsSomehow ==
    BadOptions =>
        /\ bufs = old_bufs
        /\ ret.out.exc = (CASE Cardinality(OptionCats) > 1 -> "ValueError"
                            [] Cardinality(OptionCats) = 0 -> "IndexError"
                            [] OTHER -> "KeyError")

(***************************************************************************)
(* C14.  Within one all_solutions(limit) call every yielded Solution       *)
(* satisfies all the constraints the generator took from the object, any   *)
(* two yielded Solutions differ on at least one variable of uniques(), and *)
(* if the call has ended without the warning the yielded Solutions are     *)
(* exactly the satisfying assignments.                                     *)
(***************************************************************************)
Differ(m1, m2) == \E k \in DOMAIN uniques : m1[uniques[k]] # m2[uniques[k]]

C14_Enumerate ==
    gen.st \in {"yielded", "done"} =>
        LET sat == SnapSat
        IN /\ Range(gen.out) \subseteq sat
           /\ \A k1, k2 \in DOMAIN gen.out : k1 # k2 => Differ(gen.out[k1], gen.out[k2])
           /\ (gen.st = "done" /\ ~gen.warned) => Range(gen.out) = sat

\* the call has ended without the warning after two Solutions that differ
\* only on variables of an extra category
C14_Witness ==
    /\ gen.st = "done" /\ ~gen.warned
    /\ Len(gen.out) = 2
    /\ \A k \in DOMAIN pairs : \A i, j \in Idx :
          Paired(gen.out[1], pairs[k][1], i, pairs[k][2], j)
              = Paired(gen.out[2], pairs[k][1], i, pairs[k][2], j)

(***************************************************************************)
(* C15.  all_solutions(limit) never yields more than limit Solutions and   *)
(* raises nothing; when it ends it has printed the warning exactly if it   *)
(* has yielded limit Solutions, and it ends without the warning when a     *)
(* check is unsatisfiable before limit Solutions were yielded.             *)
(***************************************************************************)
C15_Limit ==
    /\ Len(gen.out) <= gen.limit
    /\ gen.n = Len(gen.out)
    /\ gen.st = "done" => (gen.warned <=> Len(gen.out) = gen.limit)
    /\ (gen.st = "done" /\ ~gen.warned) => Models(gen.sess) = {}
    /\ gen.st # "done" => ~gen.warned

\* the generator has ended with the warning after yielding every one of
\* the limit Solutions there are
C15_Witness ==
    /\ gen.st = "done" /\ gen.warned
    /\ gen.limit >= 2
    /\ Len(gen.out) = gen.limit
    /\ Cardinality(SnapSat) = gen.limit

(***************************************************************************)
(* C16.  all_solutions terminates for every limit and every constraint     *)
(* set: provided every check returns and the caller keeps asking, the      *)
(* generator ends, after at most min(limit, number of satisfying           *)
(* assignments) yields.                                                    *)
(***************************************************************************)
Min(a, b) == IF a <= b THEN a ELSE b

YieldsBounded ==
    gen.st \in {"yielded", "done"} => Len(gen.out) <= Min(gen.limit, Cardinality(SnapSat))

C16_Terminates ==
    /\ []YieldsBounded
    /\ (gen.st \in {"new", "yielded"}) ~> (gen.st \in {"done", "none"})

\* the generator has ended by an unsatisfiable check, below its limit, after
\* as many yields as there are satisfying assignments
C16_Witness ==
    /\ gen.st = "done"
    /\ Len(gen.out) = 2
    /\ gen.limit = 3
    /\ Cardinality(SnapSat) = 2

(***************************************************************************)
(* C17: known-fact pinning.                                                *)
(***************************************************************************)
\* the Solution m has, in every cell of the grid b that is True or False,
\* that same value
Pinned(m, b) ==
    \A fp \in CatPairs : \A i, j \in Idx :
        Cell(b, fp[1], fp[2], i, j) # None =>
            (Paired(m, fp[1], i, fp[2], j) <=> Cell(b, fp[1], fp[2], i, j) = True)

\* some cell of the grid is True or False
SomeKnown == \E fp \in CatPairs : \E i, j \in Idx : Cell(bufs, fp[1], fp[2], i, j) # None

\* C17: every cell that is True or False in the grid at the moment a solve
\* starts has that same value in every Solution the solve returns or yields,
\* whenever the cell was set.  (The grid does not change between the start of
\* a solve and its return, nor while a generator is suspended.)
C17_Pinned == \A m \in Returned \cup Yielded : Pinned(m, bufs)

\* the same for the z3 classes only, where constraints() and all_solutions()
\* read the grid at every solve
C17_PinnedZ3 == cls \in {"CatProblem", "Solver"} => C17_Pinned

\* a solve on a grid with a known cell has returned or yielded a Solution
C17_Witness ==
    /\ cls \in {"CatProblem", "Solver"}
    /\ SomeKnown
    /\ Returned \cup Yielded # {}

(***************************************************************************)
(* C18: add_constraint filters the solution set by the predicate.          *)
(***************************************************************************)
\* the Solutions a solve started now would search, were the user list user:
\* logic_grid.Solver searches the model it has loaded, if it has one
SolveSet(user) ==
    IF cls = "logic_grid.Solver" THEN Models(lg_load(model, bufs, user).cons)
    ELSE Models(problem_constraints(bufs, user))

\* the value of category cat that the Solution m pairs with the value a
Linked(m, a, cat) ==
    IF a.cat = cat THEN a.val
    ELSE domain(cat)[(CHOOSE j \in Idx : Paired(m, a.cat, a.idx, cat, j)) + 1].val

\* func holds on the values the Solution m links to the pairs ps
Holds(m, ps, func) ==
    [k \in DOMAIN ps |-> Linked(m, get_info0(ps[k][1]).info, ps[k][2])] \in func

\* add_constraint(*ps)(func) has returned
Added == ret.op = "add_constraint" /\ ret.out.exc = "none"

\* the user list before the call: the call appended one constraint for
\* every failing choice
UserBefore ==
    SubSeq(constraints, 1,
           Len(constraints)
             - Len(failing([k \in DOMAIN ret.args |-> domain(ret.args[k][2])], ret.first)))

\* C18: after add_constraint((l1,C1),...,(lk,Ck))(pred) the Solutions a
\* solve can return are exactly those it could return before the call on
\* which pred holds for the values of C1..Ck paired with l1..lk
C18_Filter ==
    Added => SolveSet(constraints) = {m \in SolveSet(UserBefore) : Holds(m, ret.args, ret.first)}

\* the same for the z3 classes, whose every solve reads the user list
C18_FilterZ3 == cls \in {"CatProblem", "Solver"} => C18_Filter

\* the same for a logic_grid.Solver that has not solved yet
C18_FilterFresh == ~model.loaded => C18_Filter

\* a predicate on the name and the job of "cat" was added after another and
\* removed some, not all, of the Solutions
C18_Witness ==
    /\ Added
    /\ cls \in {"CatProblem", "Solver"}
    /\ Len(ret.args) = 2
    /\ UserBefore # << >>
    /\ SolveSet(constraints) # {}
    /\ SolveSet(constraints) # SolveSet(UserBefore)

(***************************************************************************)
(* C19: extra-category coherence.                                          *)
(***************************************************************************)
\* the value the Solution m gives the extra category name at value idx of
\* category cat
XVal(m, name, cat, idx) == m[vcats(name, cat, idx)]

\* C19: in every Solution returned or yielded, for every extra category X,
\* two values of different categories that are paired carry the same value
\* of X
C19_Coherent ==
    \A m \in Returned \cup Yielded : \A x \in DOMAIN xcats :
        \A fp \in CatPairs : \A i, j \in Idx :
            Paired(m, fp[1], i, fp[2], j) =>
                XVal(m, xcats[x].name, fp[1], i) = XVal(m, xcats[x].name, fp[2], j)

\* a Solution of a puzzle with an extra category pairs two values of
\* different positions
C19_Witness ==
    /\ xcats # << >>
    /\ \E m \in Returned \cup Yielded : \E fp \in CatPairs : \E i, j \in Idx :
          i # j /\ Paired(m, fp[1], i, fp[2], j)

(***************************************************************************)
(* C20: domain constraints of a bounded-integer extra category.            *)
(***************************************************************************)
\* value i of category c1 and value j of category c2 are in one row of the
\* Solution m
SameRow(m, c1, i, c2, j) == IF c1 = c2 THEN i = j ELSE Paired(m, c1, i, c2, j)

\* every variable of the int extra category d is within its bounds in m
InBounds(m, d) ==
    \A c \in Range(categories) : \A i \in Idx :
        d.low <= XVal(m, d.name, c, i) /\ XVal(m, d.name, c, i) <= d.high

\* values of different rows of m carry different values of d
RowsDiffer(m, d) ==
    \A c1, c2 \in Range(categories) : \A i, j \in Idx :
        ~SameRow(m, c1, i, c2, j) => XVal(m, d.name, c1, i) # XVal(m, d.name, c2, j)

\* C20: in every Solution returned or yielded, every variable of an
\* IntDomain extra category lies in low..high, both ends included; and
\* where the domain is flagged unique (the flag exists on the IntDomain of
\* cat_prob only), values of different rows carry different values of it,
\* for the values of every category
C20_Domains ==
    \A m \in Returned \cup Yielded : \A x \in DOMAIN xcats :
        xcats[x].kind = "int" =>
            /\ InBounds(m, xcats[x])
            /\ (cls = "CatProblem" /\ xcats[x].unique) => RowsDiffer(m, xcats[x])

\* a Solution of a CatProblem with a unique IntDomain in which both bounds
\* are taken, by values of the second category too
C20_Witness ==
    /\ cls = "CatProblem"
    /\ \E x \in DOMAIN xcats : xcats[x].kind = "int" /\ xcats[x].unique /\
          \E m \in Returned \cup Yielded : \E i, j \in Idx :
              /\ XVal(m, xcats[x].name, categories[2], i) = xcats[x].low
              /\ XVal(m, xcats[x].name, categories[2], j) = xcats[x].high
              /\ xcats[x].low < xcats[x].high

(***************************************************************************)
(* C21: the constraint model once constraints() has been called.           *)
(***************************************************************************)
\* constraints() has been called, or the Numberjack model built: a
\* generator has started, or logic_grid.Solver has solved
Frozen == gen.st \in {"yielded", "done"} \/ model.loaded

\* C21: once constraints() has been called for the first time, no later
\* call (add, add_constraint, a grid mutator) changes the set of Solutions
\* a later solve searches
C21_Frozen == [][Frozen => (SolveSet(constraints)' = SolveSet(constraints))]_vars

\* the same for logic_grid.Solver, which builds its model at its first solve
C21_FrozenNumberjack ==
    [][(cls = "logic_grid.Solver" /\ Frozen) =>
          (SolveSet(constraints)' = SolveSet(constraints))]_vars

(***************************************************************************)
(* C22.  solve, all_solutions (each resumption of the generator included)  *)
(* and the rows and grid properties of a solution read the puzzle without  *)
(* writing it: such a step leaves every cell of every relation grid and    *)
(* the list the user's constraints are appended to as they were, and the   *)
(* grid a solution displays has cells of its own, so that writing a cell   *)
(* of the puzzle leaves the solution the caller holds as it was.           *)
(***************************************************************************)
SolveStep == ret.op = "idle" /\ ret'.op = "solve"

EnumStep == gen' # gen

ViewStep == view' # view

ReadStep == SolveStep \/ EnumStep \/ ViewStep

FrameKept ==
    /\ ReadStep => (bufs' = bufs /\ self_constraints' = self_constraints)
    /\ bufs' # bufs => view' = view

C22_Frame == [][FrameKept]_vars

\* the same of the solvers built on z3
C22_FrameZ3 == [][cls # "logic_grid.Solver" => FrameKept]_vars

\* a solve of logic_grid.Solver that lengthened self.constraints
C22_Extended ==
    /\ cls = "logic_grid.Solver" /\ model.loaded
    /\ Len(self_constraints) > Len(cons_rowcol \o cons_sanity \o constraints)

(***************************************************************************)
(* C24.  The rows of a solution: one row for each value of the first       *)
(* category, in the order of its domain; the row has the value itself, for *)
(* every other category the one value whose cell with it is true in the    *)
(* solution, and for every extra category the value of the variable of     *)
(* the row's first-category value.                                         *)
(***************************************************************************)
\* the cell of i1 (first category) and i2 (category cat) in the solution m
CellSet(m, cat, i1, i2) == m[vgrids(categories[1], cat, i1.idx, i2.idx)]

RowIs(m, row, i1) ==
    /\ DOMAIN row = Range(categories) \cup Range(xcat_names)
    /\ row[categories[1]] = i1.val
    /\ \A c \in 2..Len(categories) :
          \E i2 \in Range(domain(categories[c])) :
              /\ row[categories[c]] = i2.val
              /\ CellSet(m, categories[c], i1, i2)
              /\ \A j2 \in Range(domain(categories[c])) :
                    CellSet(m, categories[c], i1, j2) => j2 = i2
    /\ \A x \in Range(xcat_names) : row[x] = m[vcats(x, categories[1], i1.idx)]

C24_Rows ==
    view.has_rows =>
        /\ Len(view.rows) = Len(domain(categories[1]))
        /\ \A k \in DOMAIN view.rows :
              RowIs(view.soln, view.rows[k], domain(categories[1])[k])

\* rows read of a solution that pairs the first person with the second
\* drink and gives the two persons different ages
C24_Witness ==
    /\ view.has_rows /\ Len(xcats) = 1 /\ cls = "CatProblem"
    /\ view.rows[1][categories[2]] = domain(categories[2])[2].val
    /\ view.rows[1][xcat_names[1]] # view.rows[2][xcat_names[1]]

(***************************************************************************)
(* C23.  The grid a solution displays, for every two of its categories     *)
(* (the extra ones included): the cell of the values a and b is True when  *)
(* some row holds a in the one column and b in the other, and False        *)
(* otherwise.  C23_Grid states it of the rows as rows gives them,          *)
(* C23_GridDeduped of the rows after the de-duplication, in which a value  *)
(* that an earlier row of the column holds is prefixed with "_" until it   *)
(* is new to the column.                                                   *)
(***************************************************************************)
DisplayCell(d, f1, f2, i, j) == Read(d.bufs, d.grids[f1][f2], i, j)

\* some row of rs holds a in column f1 and b in column f2
InOneRow(rs, f1, f2, a, b) == \E r \in DOMAIN rs : rs[r][f1] = a /\ rs[r][f2] = b

GridShows(d, rs) ==
    /\ d.exc = "none"
    /\ \A f1, f2 \in Range(d.categories) :
          f1 # f2 =>
            \A ia \in Range(d.catmap[f1]) : \A ib \in Range(d.catmap[f2]) :
                DisplayCell(d, f1, f2, ia.idx, ib.idx)
                    = IF InOneRow(rs, f1, f2, ia.val, ib.val) THEN True ELSE False

\* the rows with every value written as the display grid writes values
RowsShown(rows) == [r \in DOMAIN rows |-> [n \in DOMAIN rows[r] |-> shown(n, rows[r][n])]]

C23_Grid == view.has_grid => GridShows(view.grid, RowsShown(view.rows))

C23_GridDeduped == view.has_grid => GridShows(view.grid, altrows(view.rows))

\* a display grid of a solution whose extra category has one value in two rows
C23_Witness ==
    /\ view.has_grid /\ Len(xcats) = 1
    /\ view.rows[1][xcat_names[1]] = view.rows[2][xcat_names[1]]

\* a display grid of a puzzle in which two categories share a literal
C23_SharedLiteral ==
    /\ view.has_grid
    /\ \E v \in DOMAIN lookup : lookup[v].conflict

(***************************************************************************)
(* C25.  No registry exists in which two values of one category have the   *)
(* same qualified name (the construction from a category that lists a      *)
(* literal twice fails): in every registry constructed, values of one      *)
(* category at different indices are different literals.                   *)
(***************************************************************************)
C25_DistinctNames ==
    \A cat \in Range(categories) : \A i, j \in DOMAIN domain(cat) :
        fullname(domain(cat)[i]) = fullname(domain(cat)[j]) => i = j

\* a value of the registry that its own qualified name does not resolve to
C25_Shadowed ==
    \E cat \in Range(categories) : \E i \in DOMAIN domain(cat) :
        /\ ret.op = "get_info" /\ ret.args = <<fullname(domain(cat)[i])>>
        /\ ret.out.exc = "none" /\ ret.out.info # domain(cat)[i]

(***************************************************************************)
(* C26.  A check that returns unknown is told apart from one that returns  *)
(* unsat: a solve whose last check returned unknown does not raise         *)
(* NoSolution, and a generator whose last check returned unknown has not   *)
(* ended as an exhausted one does, by returning without a warning.         *)
(***************************************************************************)
C26_Unknown ==
    cls \in {"CatProblem", "Solver"} =>
        /\ (ret.op = "solve" /\ ret.chk = "unknown") => ret.out.exc # "NoSolution"
        /\ gen.chk = "unknown" => ~(gen.st = "done" /\ ~gen.warned)

\* solve has raised NoSolution on a puzzle that has a solution
C26_FalseNoSolution ==
    /\ ret.op = "solve" /\ ret.out.exc = "NoSolution"
    /\ SolveSet(constraints) # {}

\* solve(unique = True) has returned a solution as the only one while the
\* puzzle has another
C26_FalseUnique ==
    /\ ret.op = "solve" /\ ret.first = TRUE /\ ret.out.exc = "none"
    /\ Cardinality(SolveSet(constraints)) > 1

(***************************************************************************)
(* C27.  The warning of a generator ("more than {limit} solutions found",  *)
(* "Terminated early after {limit} solutions") is printed only when the    *)
(* puzzle, as it stood when the generator started, has more than limit     *)
(* solutions.                                                              *)
(***************************************************************************)
C27_WarnedOnlyIfMore == gen.warned => Cardinality(SnapSat) > gen.limit

\* the warning printed although every solution there is has been yielded
C27_WarnedComplete ==
    /\ gen.st = "done" /\ gen.warned /\ gen.limit > 0
    /\ Range(gen.out) = SnapSat

(***************************************************************************)
(* C28.  A require that raises ValueError (two of its literals are of one  *)
(* category) has written no cell: the arrays are as they were when the     *)
(* call started.                                                           *)
(***************************************************************************)
C28_RequireAtomic ==
    (ret.op = "require" /\ ret.out.exc = "ValueError") => bufs = old_bufs

\* a require that raised ValueError after it had set a cell True
C28_PartlyWritten ==
    /\ ret.op = "require" /\ ret.out.exc = "ValueError"
    /\ \E k \in DOMAIN bufs : \E i, j \in Idx :
          bufs[k][i][j] = True /\ old_bufs[k][i][j] = None

(***************************************************************************)
(* C29.  An exclude, require or requireOne one of whose literals does not  *)
(* resolve (it is unknown, or ambiguous), at whatever position, raises the *)
(* KeyError or AmbiguityError of a literal and has written no cell.        *)
(***************************************************************************)
\* the literals of the call reported in ret, in the order they are resolved
Literals == IF ret.op = "requireOne" THEN <<ret.first>> \o ret.args ELSE ret.args

Unresolved ==
    /\ ret.op \in {"exclude", "require", "requireOne"}
    /\ \E k \in DOMAIN Literals : get_info(Literals[k], None).exc # "none"

C29_ResolvedFirst ==
    Unresolved =>
        /\ ret.out.exc \in {"KeyError", "AmbiguityError"}
        /\ bufs = old_bufs

\* a require whose last literal is the one that does not resolve, after two
\* literals of different categories
C29_Witness ==
    /\ ret.op = "require" /\ Len(ret.args) = 3
    /\ get_info(ret.args[1], None).exc = "none"
    /\ get_info(ret.args[2], None).exc = "none"
    /\ get_info(ret.args[1], None).info.cat # get_info(ret.args[2], None).info.cat
    /\ get_info(ret.args[3], None).exc # "none"
    /\ bufs = old_bufs

(***************************************************************************)
(* C30.  Every all_solutions generator has a solver of its own: what its   *)
(* solver was given before the loop is the list the model gives now, so    *)
(* that it searches the solutions a new call would search; every later     *)
(* assertion of its solver is the blocking clause of a solution that this  *)
(* very generator has yielded, in order; and no blocking clause is ever in *)
(* the list of the model's own constraints.                                *)
(***************************************************************************)
Started == gen.st \in {"yielded", "done"}

C30_OwnSession ==
    /\ \A k \in DOMAIN constraints : constraints[k].op # "OrDiffers"
    /\ Started =>
          /\ SubSeq(gen.sess, 1, gen.nb) = problem_constraints(bufs, constraints)
          /\ SnapSat = SolveSet(constraints)
          /\ Len(gen.sess) - gen.nb <= Len(gen.out)
          /\ \A k \in 1..(Len(gen.sess) - gen.nb) :
                gen.sess[gen.nb + k] = negate(gen.out[k])

\* a generator whose solver holds blocking clauses and so has fewer
\* solutions left than a new call on the model would find
C30_Witness ==
    /\ Started /\ Len(gen.sess) > gen.nb
    /\ Cardinality(Models(gen.sess)) < Cardinality(SolveSet(constraints))

====
